---- MODULE Spec2Model ----
(***************************************************************************)
(* The control-protocol engine of claude-code-rs: ClaudeSDKClient          *)
(* (client.rs) owning one Query (query.rs) over a SubprocessTransport      *)
(* (transport/subprocess.rs), the three stdio tasks, the router task, the  *)
(* pending-request table and the three bounded channels between them.      *)
(* The child process (CLI) and the application are the environment.        *)
(***************************************************************************)
EXTENDS Integers, Sequences, FiniteSets, TLC

\* ---------------------------------------------------------------- bounds
\* Lines the child writes on its stdout during one run.
MaxLines == 2
\* Control commands (interrupt, set_model, ...) the application issues.
MaxCalls == 2
\* Capacity of each mpsc channel (256 in the source).
ChanCap == 1
\* Capacity of the outbound (write) channel.
WriteCap == 2
\* Registered hooks, and characters after the prefix of a callback id.
MaxHooks == 2
MaxIdLen == 2
\* Message streams the application takes in one run.
MaxStreams == 2
\* connect() calls that start a session in one run.
MaxConnects == 2

\* ---------------------------------------------------------------- values
\* Call 0 is the init handshake (Query::initialize); 1..MaxCalls are the
\* application's send_control_command calls.
Calls == 0..MaxCalls
Cmds == 1..MaxCalls

NoFrame == [type |-> "none", rid |-> 0, sub |-> "", seq |-> 0]

\* A JSON value read from the child's stdout. type is the top-level "type"
\* ("" when it is missing or no string); rid is the request id (0: none, or
\* one that is in no table); sub is request.subtype of a control_request
\* ("absent": the frame has no "request" field); seq is the line's position
\* on stdout.
Frame(t, r, s, n) == [type |-> t, rid |-> r, sub |-> s, seq |-> n]

\* The subtypes the child may put in a control_request.
Subtypes == {"can_use_tool", "absent"}

\* Content frame types: parsed into Message::Assistant, Message::Result, or,
\* with no "type" field, refused by parse_message.
ContentTypes == {"assistant", "result", ""}

\* Request ids the child puts in its own control requests: one per line.
ChildRid(n) == 100 + n

VARIABLES
    \* ClaudeSDKClient
    query,              \* client.query: "None" | "Some"
    conn,               \* client.connect: "idle" | "initialize" | "Ok" | "Err" | "disconnected"
    conn_err,           \* the error connect() returned ("" while none)
    message_rx,         \* consumer end of the consumer channel is alive
    \* Query
    writer,             \* Query.writer is Some
    cancel,             \* Query.cancel is cancelled
    pending_responses,  \* keys of the pending table
    server_info,        \* NoFrame (None) or the init response
    next_id,            \* the next fresh request id
    call,               \* per call: pc, id, got (oneshot slot), res
    \* SubprocessTransport
    ready,              \* transport.ready
    child,              \* transport.child: "None" | "Some"
    transport_cancel,   \* transport.cancel is cancelled
    \* the child process
    child_alive,
    nlines,             \* lines the child has written so far
    child_seen,         \* request ids the child has read from its stdin
    \* channels
    read_q,             \* stdout task -> router   (read_tx / raw_rx)
    write_q,            \* TransportWriter -> stdin task (write_tx / write_rx)
    consumer_q,         \* router -> consumer (consumer_tx / consumer_rx)
    \* tasks
    stdout_pc, stdout_hold,
    stdin_pc,
    stderr_pc,
    router_pc, router_hold,
    \* history
    last_send,          \* the latest prompt, command or connect() that returned an error
                        \* before it was enqueued: [op, at, res]
    last_skip,          \* the number of the latest stdout line that was
                        \* skipped (0: none yet)
    \* control request handlers
    hooks,              \* options.hooks: per registered hook, the decision
                        \* its callback returns
    request,            \* the "request" object of the control_request handled
    can_use_tool,       \* Query.can_use_tool: NoCapability, or the callback
                        \* with the PermissionResult it returns
    mcp_servers,        \* names of the in-process MCP servers ({}: no handler)
    hook_calls,         \* the indices of the hooks invoked, in order
    permission_calls,   \* how many times the permission callback was invoked
    mcp_calls,          \* the (server, message) pairs handed to a server
    response,           \* the body the handler returned (NoResponse: not yet)
    \* the application's message streams
    stream,             \* "none" | "messages" (a MessageStream is alive) |
                        \* "response" (receive_response is running)
    stream_no,          \* how many streams have been taken so far
    yielded,            \* the items the streams have yielded: [item, by]
    recv_res            \* what the latest receive_response returned

vars == <<query, conn, conn_err, message_rx, writer, cancel, pending_responses,
          server_info, next_id, call, ready, child, transport_cancel,
          child_alive, nlines, child_seen, read_q, write_q, consumer_q,
          stdout_pc, stdout_hold, stdin_pc, stderr_pc, router_pc, router_hold,
          last_send, last_skip, hooks, request, can_use_tool, mcp_servers,
          hook_calls, permission_calls, mcp_calls, response,
          stream, stream_no, yielded, recv_res>>

clientVars == <<query, conn, conn_err, message_rx>>
queryVars == <<writer, cancel, pending_responses, server_info, next_id, call>>
transportVars == <<ready, child, transport_cancel>>
childVars == <<child_alive, nlines, child_seen>>
taskVars == <<stdout_pc, stdout_hold, stdin_pc, stderr_pc, router_pc, router_hold>>
histVars == <<last_send, last_skip>>
capVars == <<hooks, can_use_tool, mcp_servers>>
invokedVars == <<hook_calls, permission_calls, mcp_calls>>
handlerVars == <<capVars, request, invokedVars, response>>
streamVars == <<stream, stream_no, yielded, recv_res>>

NoSend == [op |-> "none", at |-> "", res |-> ""]

NoCall == [pc |-> "idle", id |-> 0, got |-> NoFrame, res |-> "none"]

\* The "request" object of a control_request, as far as the handlers read
\* it: subtype, callback_id, server_name, message.
Request(sub, id, server, msg) ==
    [subtype |-> sub, callback_id |-> id, server_name |-> server, message |-> msg]

NoRequest == Request("none", <<>>, "", "Null")

\* Option<CanUseToolCallback>::None.
NoCapability == [some |-> FALSE, allowed |-> TRUE, reason |-> "None"]

NoResponse == [continue |-> FALSE, permissionDecision |-> "none"]

\* receive_response has not returned (or was never called).
NoRecv == [res |-> "none", msgs |-> <<>>, err |-> NoFrame]

\* No MessageStream is alive and none has been taken: the application takes
\* its items one by one (ConsumerRecv).
StreamsIdle ==
    /\ stream = "none" /\ stream_no = 0 /\ yielded = <<>> /\ recv_res = NoRecv

\* No control request is being handled by the handlers themselves: in the
\* session the router's answers are the bodies of ResponseBody.
HandlersIdle ==
    /\ hooks = <<>> /\ can_use_tool = NoCapability /\ mcp_servers = {}
    /\ request = NoRequest
    /\ hook_calls = <<>> /\ permission_calls = 0 /\ mcp_calls = <<>>
    /\ response = NoResponse

\* ClaudeSDKClient::new: nothing connected, no task spawned.
InitClient ==
    /\ query = "None" /\ conn = "idle" /\ conn_err = "" /\ message_rx = FALSE
    /\ writer = FALSE /\ cancel = FALSE /\ pending_responses = {}
    /\ server_info = NoFrame /\ next_id = 1
    /\ call = [c \in Calls |-> NoCall]
    /\ ready = FALSE /\ child = "None" /\ transport_cancel = FALSE
    /\ child_alive = FALSE /\ nlines = 0 /\ child_seen = {}
    /\ read_q = <<>> /\ write_q = <<>> /\ consumer_q = <<>>
    /\ stdout_pc = "off" /\ stdout_hold = NoFrame
    /\ stdin_pc = "off" /\ stderr_pc = "off"
    /\ router_pc = "off" /\ router_hold = NoFrame
    /\ last_send = NoSend /\ last_skip = 0

Init == InitClient /\ HandlersIdle /\ StreamsIdle

\* A task that has been spawned and has not returned.
Running(pc) == pc \in {"run", "blocked", "blocked_err", "blocked_resp", "handler"}
\* A task that has returned (its channel ends are dropped).
Exited(pc) == pc \in {"exit", "exit_cancel", "exit_eof", "exit_err", "exit_closed"}

\* mpsc::Sender::send on the write channel fails once write_rx is dropped,
\* that is once the stdin task has returned.
WriteClosed == Exited(stdin_pc)
WriteRoom == Len(write_q) < WriteCap
\* ... on the read channel: raw_rx is owned by the router task.
ReadClosed == Exited(router_pc)
ReadRoom == Len(read_q) < ChanCap
\* ... on the consumer channel: consumer_rx is held by connect(), then by the
\* client (message_rx), and dropped with them.
ConsumerClosed == ~message_rx
ConsumerRoom == Len(consumer_q) < ChanCap

\* ------------------------------------------------------------ Query, client
\* TransportWriter::write when it does not fail: the frame joins the single
\* outbound queue.
Enqueue(msg) == write_q' = Append(write_q, msg)

\* ClaudeSDKClient::query_ref: Err(NotConnected) unless client.query is Some.
QueryRef == query = "Some"

\* What dropping a Query does (client.rs:156 and query_fn.rs:64 drop the local
\* q when q.connect() fails): Drop for Query cancels its token, dropping the
\* boxed SubprocessTransport cancels the transport's token, the Child handle
\* is dropped without kill (tokio's kill_on_drop is left at its default,
\* false), the TransportWriter clone and the consumer receiver are dropped.
DropQuery ==
    /\ cancel' = TRUE
    /\ transport_cancel' = TRUE
    /\ writer' = FALSE
    /\ child' = "None"
    /\ message_rx' = FALSE
    /\ consumer_q' = <<>>

\* For comparison with ConnectFail: a connect() that keeps the half-built
\* Query in the client when the handshake fails.
ConnectFailKeepsQuery(err) ==
    /\ conn' = "Err"
    /\ conn_err' = err
    /\ query' = "Some"
    /\ UNCHANGED <<cancel, transport_cancel, writer, child, message_rx,
                   consumer_q, ready, child_alive>>

\* q.connect().await? in ClaudeSDKClient::connect when Query::connect
\* returns Err(err): the error is returned, q goes out of scope, client.query
\* and client.message_rx are never assigned.
ConnectFail(err) ==
    /\ conn' = "Err"
    /\ conn_err' = err
    /\ query' = "None"
    /\ DropQuery
    /\ UNCHANGED <<ready, child_alive>>

\* ClaudeSDKClient::connect, first failures: resolve_cli_path()? or
\* cmd.spawn() fail; nothing was started.
ConnectSpawnFail ==
    /\ conn = "idle" /\ query = "None"
    /\ \E e \in {"CliNotFound", "CliConnection"} :
          /\ conn' = "Err"
          /\ conn_err' = e
    /\ UNCHANGED <<query, message_rx, queryVars, transportVars, childVars,
                   read_q, write_q, consumer_q, taskVars, histVars, handlerVars,
                   streamVars>>

\* ClaudeSDKClient::connect up to the first suspension inside
\* Query::initialize, the wait for the init response:
\* SubprocessTransport::connect_impl spawns the child and the three stdio
\* tasks, Query::connect keeps the writer and spawns the router, initialize
\* registers the pending entry of the init request and then writes the
\* request (the outbound queue is new and empty and its receiver is alive, so
\* this write neither waits nor fails).
ConnectStart ==
    /\ conn = "idle" /\ query = "None"
    /\ ~ready
    /\ conn' = "initialize"
    /\ ready' = TRUE /\ child' = "Some" /\ child_alive' = TRUE
    /\ stdout_pc' = "run" /\ stdin_pc' = "run" /\ stderr_pc' = "run"
    /\ router_pc' = "run"
    /\ writer' = TRUE
    /\ message_rx' = TRUE
    /\ pending_responses' = pending_responses \cup {next_id}
    /\ call' = [call EXCEPT ![0] = [pc |-> "await", id |-> next_id,
                                    got |-> NoFrame, res |-> "none"]]
    /\ Enqueue(Frame("control_request", next_id, "initialize", 0))
    /\ next_id' = next_id + 1
    /\ UNCHANGED <<query, conn_err, cancel, server_info, transport_cancel,
                   nlines, child_seen, read_q, consumer_q, stdout_hold,
                   router_hold,
                   histVars, handlerVars,
                   streamVars>>

\* Query::initialize, the timeout elapses before the oneshot yields: the error
\* is mapped to ControlTimeout and returned; nothing touches the table (see
\* PendingAfterTimeout).
InitTimeout ==
    /\ conn = "initialize" /\ call[0].pc = "await" /\ call[0].got = NoFrame
    /\ call' = [call EXCEPT ![0].pc = "done", ![0].res = "ControlTimeout"]
    /\ ConnectFail("ControlTimeout")
    /\ UNCHANGED <<pending_responses, server_info, next_id, nlines, child_seen,
                   read_q, write_q, taskVars, histVars, handlerVars,
                   streamVars>>

\* For comparison with InitReturn: a connect() that does not wait for the
\* response to its initialize request.
InitReturnEarly(prompt) ==
    /\ conn = "initialize" /\ call[0].pc = "await"
    /\ prompt => (WriteClosed \/ WriteRoom)
    /\ call' = [call EXCEPT ![0].pc = "done", ![0].res = "Ok"]
    /\ server_info' = call[0].got
    /\ query' = "Some"
    /\ IF prompt /\ WriteClosed
       THEN /\ conn' = "Err" /\ conn_err' = "TransportClosed"
            /\ last_send' = [op |-> "query", at |-> "connect", res |-> "TransportClosed"]
            /\ UNCHANGED write_q
       ELSE /\ conn' = "Ok" /\ conn_err' = ""
            /\ IF prompt
               THEN Enqueue(Frame("user", 0, "", 0))
               ELSE UNCHANGED write_q
            /\ UNCHANGED last_send
    /\ UNCHANGED <<message_rx, writer, cancel, pending_responses, next_id,
                   transportVars, childVars, read_q, consumer_q, taskVars, last_skip, handlerVars,
                   streamVars>>

\* Query::initialize returns Ok after storing the response as server_info;
\* Query::connect returns the consumer receiver; ClaudeSDKClient::connect
\* stores it and the query, then sends the initial prompt if one was given.
InitReturn(prompt) ==
    /\ conn = "initialize" /\ call[0].pc = "await" /\ call[0].got # NoFrame
    /\ prompt => (WriteClosed \/ WriteRoom)
    /\ call' = [call EXCEPT ![0].pc = "done", ![0].res = "Ok"]
    /\ server_info' = call[0].got
    /\ query' = "Some"
    /\ IF prompt /\ WriteClosed
       THEN /\ conn' = "Err" /\ conn_err' = "TransportClosed"
            /\ last_send' = [op |-> "query", at |-> "connect", res |-> "TransportClosed"]
            /\ UNCHANGED write_q
       ELSE /\ conn' = "Ok" /\ conn_err' = ""
            /\ IF prompt
               THEN Enqueue(Frame("user", 0, "", 0))
               ELSE UNCHANGED write_q
            /\ UNCHANGED last_send
    /\ UNCHANGED <<message_rx, writer, cancel, pending_responses, next_id,
                   transportVars, childVars, read_q, consumer_q, taskVars, last_skip, handlerVars,
                   streamVars>>

\* No method of the client is running on a borrow that excludes others:
\* connect(&mut self) and disconnect(&mut self) need the client exclusively,
\* the control commands and query() take &self and may overlap each other.
NoCallInFlight == \A c \in Cmds : call[c].pc \in {"idle", "done"}

\* A control command (ClaudeSDKClient::interrupt, set_model, ...) called while
\* query_ref() fails, or while the Query has no writer: Err(NotConnected) from
\* client.rs:107 or query.rs:99, before anything is allocated.
CmdRefused ==
    /\ conn # "initialize"
    /\ ~QueryRef \/ ~writer
    /\ last_send' = [op |-> "command", at |-> conn, res |-> "NotConnected"]
    /\ UNCHANGED <<clientVars, queryVars, transportVars, childVars, read_q,
                   write_q, consumer_q, taskVars, last_skip, handlerVars,
                   streamVars>>

\* The connect() calls that have started a session so far: every one of
\* them, and every command, has drawn one request id.
Connects == next_id - 1 - Cardinality({c \in Cmds : call[c].pc # "idle"})

\* For comparison with Reconnect: a connect() that builds the new engine
\* around the cancellation tokens of the session before.
ReconnectKeepsTokens ==
    /\ query = "None" /\ conn \in {"Err", "disconnected"} /\ NoCallInFlight
    /\ Connects < MaxConnects
    /\ \A pc \in {stdout_pc, stdin_pc, stderr_pc, router_pc} : ~Running(pc)
    /\ conn' = "initialize"
    /\ ready' = TRUE /\ child' = "Some" /\ child_alive' = TRUE
    /\ child_seen' = {}
    /\ UNCHANGED <<cancel, transport_cancel>>
    /\ stdout_pc' = "run" /\ stdin_pc' = "run" /\ stderr_pc' = "run"
    /\ router_pc' = "run"
    /\ stdout_hold' = NoFrame /\ router_hold' = NoFrame
    /\ writer' = TRUE
    /\ message_rx' = TRUE
    /\ server_info' = NoFrame
    /\ pending_responses' = {next_id}
    /\ call' = [call EXCEPT ![0] = [pc |-> "await", id |-> next_id,
                                    got |-> NoFrame, res |-> "none"]]
    /\ read_q' = <<>> /\ consumer_q' = <<>>
    /\ write_q' = <<Frame("control_request", next_id, "initialize", 0)>>
    /\ next_id' = next_id + 1
    /\ UNCHANGED <<query, conn_err, nlines, histVars, handlerVars, streamVars>>

\* ClaudeSDKClient::connect on a client that holds no engine after a failed
\* connect() or a disconnect(), up to the wait for the init response, once
\* the tasks of the session before have returned: SubprocessTransport::new
\* and Query::new make a new transport, new cancellation tokens, an empty
\* pending table and no server info; connect_impl spawns a new child, new
\* channels and tasks; then as in ConnectStart. Calls and stdout lines go
\* on being counted through the run.
Reconnect ==
    /\ query = "None" /\ conn \in {"Err", "disconnected"} /\ NoCallInFlight
    /\ Connects < MaxConnects
    /\ \A pc \in {stdout_pc, stdin_pc, stderr_pc, router_pc} : ~Running(pc)
    /\ conn' = "initialize"
    /\ ready' = TRUE /\ child' = "Some" /\ child_alive' = TRUE
    /\ child_seen' = {}
    /\ cancel' = FALSE /\ transport_cancel' = FALSE
    /\ stdout_pc' = "run" /\ stdin_pc' = "run" /\ stderr_pc' = "run"
    /\ router_pc' = "run"
    /\ stdout_hold' = NoFrame /\ router_hold' = NoFrame
    /\ writer' = TRUE
    /\ message_rx' = TRUE
    /\ server_info' = NoFrame
    /\ pending_responses' = {next_id}
    /\ call' = [call EXCEPT ![0] = [pc |-> "await", id |-> next_id,
                                    got |-> NoFrame, res |-> "none"]]
    /\ read_q' = <<>> /\ consumer_q' = <<>>
    /\ write_q' = <<Frame("control_request", next_id, "initialize", 0)>>
    /\ next_id' = next_id + 1
    /\ UNCHANGED <<query, conn_err, nlines, histVars, handlerVars, streamVars>>

\* For comparison with ConnectRefused: a connect() that notices the existing
\* session only after it has spawned a child and built a new Query.
ConnectRefusedLate ==
    /\ query = "Some" /\ NoCallInFlight
    /\ last_send' = [op |-> "connect", at |-> conn, res |-> "AlreadyConnected"]
    /\ child_alive' = TRUE /\ nlines' = 0 /\ child_seen' = {}
    /\ pending_responses' = {}
    /\ consumer_q' = <<>>
    /\ UNCHANGED <<clientVars, writer, cancel, server_info, next_id, call,
                   transportVars, read_q, write_q, taskVars, last_skip,
                   handlerVars, streamVars>>

\* ClaudeSDKClient::connect on a client whose query is Some:
\* Err(AlreadyConnected) before a transport or a Query is built. A transport
\* that is ready refuses in the same way (connect_impl), but the client makes
\* a new transport for every connect, so that guard is the ~ready of
\* ConnectStart.
ConnectRefused ==
    /\ query = "Some" /\ NoCallInFlight
    /\ last_send' = [op |-> "connect", at |-> conn, res |-> "AlreadyConnected"]
    /\ UNCHANGED <<clientVars, queryVars, transportVars, childVars, read_q,
                   write_q, consumer_q, taskVars, last_skip, handlerVars,
                   streamVars>>

\* writer.write(request).await? of send_control_command for call c, whose
\* entry is in the table: Err(TransportClosed) is returned as it is (the
\* entry stays), a full queue is waited for.
CmdEnqueue(c, id) ==
    IF WriteClosed
    THEN /\ call' = [call EXCEPT ![c] = [pc |-> "done", id |-> id,
                                         got |-> call[c].got,
                                         res |-> "TransportClosed"]]
         /\ UNCHANGED write_q
    ELSE IF WriteRoom
    THEN /\ call' = [call EXCEPT ![c] = [pc |-> "await", id |-> id,
                                         got |-> call[c].got, res |-> "none"]]
         /\ Enqueue(Frame("control_request", id, "command", 0))
    ELSE /\ call' = [call EXCEPT ![c] = [pc |-> "write", id |-> id,
                                         got |-> call[c].got, res |-> "none"]]
         /\ UNCHANGED write_q

\* For comparison with CmdBegin: a command that writes its request before
\* it has put the entry in the table.
CmdBeginWritesFirst(c) ==
    /\ call[c].pc = "idle"
    /\ c > 1 => call[c - 1].pc # "idle"
    /\ conn # "initialize"
    /\ QueryRef /\ writer
    /\ pending_responses' = pending_responses
    /\ next_id' = next_id + 1
    /\ CmdEnqueue(c, next_id)
    /\ UNCHANGED <<clientVars, writer, cancel, server_info, transportVars,
                   childVars, read_q, consumer_q, taskVars, histVars, handlerVars,
                   streamVars>>

\* Query::send_control_command (through ClaudeSDKClient::interrupt,
\* set_model, ...) up to its first suspension: query_ref()?, the writer
\* check, generate_request_id, pending.insert, then the write.
\* generate_request_id draws 64 random bits; the model hands out fresh ids.
CmdBegin(c) ==
    /\ call[c].pc = "idle"
    /\ c > 1 => call[c - 1].pc # "idle"
    /\ conn # "initialize"
    /\ QueryRef /\ writer
    /\ pending_responses' = pending_responses \cup {next_id}
    /\ next_id' = next_id + 1
    /\ CmdEnqueue(c, next_id)
    /\ UNCHANGED <<clientVars, writer, cancel, server_info, transportVars,
                   childVars, read_q, consumer_q, taskVars, histVars, handlerVars,
                   streamVars>>

\* The write a command was waiting in completes or fails.
CmdWrite(c) ==
    /\ call[c].pc = "write"
    /\ WriteClosed \/ WriteRoom
    /\ CmdEnqueue(c, call[c].id)
    /\ UNCHANGED <<clientVars, writer, cancel, pending_responses, server_info,
                   next_id, transportVars, childVars, read_q, consumer_q,
                   taskVars, histVars, handlerVars,
                   streamVars>>

\* What the table holds after a round trip timed out: the code maps the
\* Elapsed error and returns; no statement removes the entry.
PendingAfterTimeout(id) == pending_responses

\* For comparison with CmdTimeout: a timeout that gives the session up,
\* cancelling the engine's token.
CmdTimeoutCancels(c) ==
    /\ call[c].pc = "await" /\ call[c].got = NoFrame
    /\ call' = [call EXCEPT ![c].pc = "done", ![c].res = "ControlTimeout"]
    /\ pending_responses' = PendingAfterTimeout(call[c].id)
    /\ cancel' = TRUE
    /\ UNCHANGED <<clientVars, writer, server_info, next_id,
                   transportVars, childVars, read_q, write_q, consumer_q,
                   taskVars, histVars, handlerVars,
                   streamVars>>

\* Query::send_control_command, the timeout elapses first: ControlTimeout.
CmdTimeout(c) ==
    /\ call[c].pc = "await" /\ call[c].got = NoFrame
    /\ call' = [call EXCEPT ![c].pc = "done", ![c].res = "ControlTimeout"]
    /\ pending_responses' = PendingAfterTimeout(call[c].id)
    /\ UNCHANGED <<clientVars, writer, cancel, server_info, next_id,
                   transportVars, childVars, read_q, write_q, consumer_q,
                   taskVars, histVars, handlerVars,
                   streamVars>>

\* Query::send_control_command, the oneshot yields the response: Ok(response).
CmdReturn(c) ==
    /\ call[c].pc = "await" /\ call[c].got # NoFrame
    /\ call' = [call EXCEPT ![c].pc = "done", ![c].res = "Ok"]
    /\ UNCHANGED <<clientVars, writer, cancel, pending_responses, server_info,
                   next_id, transportVars, childVars, read_q, write_q,
                   consumer_q, taskVars, histVars, handlerVars,
                   streamVars>>

\* For comparison with SendMessageResult: a send_message without the two
\* NotConnected checks.
SendMessageUnchecked == IF WriteClosed THEN "TransportClosed" ELSE "Ok"

\* The result of ClaudeSDKClient::query -> Query::send_message, as far as it
\* is decided before the queue is touched: query_ref()? and then
\* self.writer.as_ref().ok_or(NotConnected)?, then the write itself.
SendMessageResult ==
    IF ~QueryRef THEN "NotConnected"
    ELSE IF ~writer THEN "NotConnected"
    ELSE IF WriteClosed THEN "TransportClosed"
    ELSE "Ok"

\* ClaudeSDKClient::query(prompt, session_id).
ClientQuery ==
    /\ conn # "initialize"
    /\ SendMessageResult = "Ok" => WriteRoom
    /\ IF SendMessageResult = "Ok"
       THEN /\ Enqueue(Frame("user", 0, "", 0))
            /\ UNCHANGED last_send
       ELSE /\ last_send' = [op |-> "query", at |-> conn, res |-> SendMessageResult]
            /\ UNCHANGED write_q
    /\ UNCHANGED <<clientVars, queryVars, transportVars, childVars, read_q,
                   consumer_q, taskVars, last_skip, handlerVars,
                   streamVars>>

\* The fields of the Query and of its transport that close() works on, and
\* the child process behind the handle.
EngineState ==
    [cancel |-> cancel, writer |-> writer, ready |-> ready, child |-> child,
     transport_cancel |-> transport_cancel, child_alive |-> child_alive]

\* SubprocessTransport::close_impl: ready = false, cancel the transport
\* token, kill the child if there is a handle, child = None, Ok(()).
CloseImpl(s) ==
    [state |-> [s EXCEPT !.ready = FALSE,
                         !.transport_cancel = TRUE,
                         !.child_alive = IF s.child = "Some" THEN FALSE
                                         ELSE s.child_alive,
                         !.child = "None"],
     res |-> "Ok"]

\* For comparison with QueryClose: a close() that reports NotConnected when
\* there is no writer to drop.
QueryCloseOnce(s) ==
    IF ~s.writer
    THEN [state |-> s, res |-> "NotConnected"]
    ELSE CloseImpl([s EXCEPT !.cancel = TRUE, !.writer = FALSE])

\* Query::close: cancel the token, drop the writer, transport.close().
QueryClose(s) == CloseImpl([s EXCEPT !.cancel = TRUE, !.writer = FALSE])

\* ClaudeSDKClient::disconnect with a query: the Query is taken out of the
\* client and closed (q.close().await?), message_rx is set to None, and the
\* Query is dropped.
ClientDisconnect ==
    /\ query = "Some"
    /\ conn # "initialize" /\ NoCallInFlight
    /\ query' = "None"
    /\ conn' = "disconnected"
    /\ LET closed == QueryClose(EngineState)
       IN  /\ cancel' = closed.state.cancel
           /\ writer' = closed.state.writer
           /\ ready' = closed.state.ready
           /\ transport_cancel' = closed.state.transport_cancel
           /\ child_alive' = closed.state.child_alive
           /\ child' = closed.state.child
           /\ IF closed.res = "Ok"
              THEN /\ message_rx' = FALSE
                   /\ consumer_q' = <<>>
              ELSE UNCHANGED <<message_rx, consumer_q>>
    /\ UNCHANGED <<conn_err, pending_responses, server_info, next_id, call,
                   nlines, child_seen, read_q, write_q, taskVars, histVars, handlerVars,
                   streamVars>>

\* The application polls the MessageStream: the next item of the consumer
\* channel.
ConsumerRecv ==
    /\ query = "Some" /\ message_rx
    /\ consumer_q # <<>>
    /\ consumer_q' = Tail(consumer_q)
    /\ UNCHANGED <<clientVars, queryVars, transportVars, childVars, read_q,
                   write_q, taskVars, histVars, handlerVars,
                   streamVars>>

\* ------------------------------------------------- the application's streams
\* An item of the consumer channel that is an Err(..).
IsErr(item) == item.type \in {"Err(Io)", "Err(MessageParse)"}

\* The items stream number n has yielded, in order.
RECURSIVE YieldedBy(_, _)
YieldedBy(ys, n) ==
    IF ys = <<>> THEN <<>>
    ELSE (IF Head(ys).by = n THEN <<Head(ys).item>> ELSE <<>>)
         \o YieldedBy(Tail(ys), n)

\* ClaudeSDKClient::receive_messages: the receiver is taken out of
\* client.message_rx and wrapped in a MessageStream that borrows the client.
ReceiveMessages ==
    /\ stream = "none" /\ stream_no < MaxStreams
    /\ query = "Some" /\ message_rx
    /\ stream' = "messages"
    /\ stream_no' = stream_no + 1
    /\ UNCHANGED <<clientVars, queryVars, transportVars, childVars, read_q,
                   write_q, consumer_q, taskVars, histVars, handlerVars,
                   yielded, recv_res>>

\* MessageStream::poll_next yields Some(item): the next item of the channel.
StreamNext ==
    /\ stream = "messages" /\ consumer_q # <<>>
    /\ consumer_q' = Tail(consumer_q)
    /\ yielded' = Append(yielded, [item |-> Head(consumer_q), by |-> stream_no])
    /\ UNCHANGED <<clientVars, queryVars, transportVars, childVars, read_q,
                   write_q, taskVars, histVars, handlerVars,
                   stream, stream_no, recv_res>>

\* For comparison with StreamDrop: a stream that takes the receiver with it
\* when it is dropped.
StreamDropLoses ==
    /\ stream = "messages"
    /\ stream' = "none"
    /\ message_rx' = FALSE
    /\ consumer_q' = <<>>
    /\ UNCHANGED <<query, conn, conn_err, queryVars, transportVars, childVars,
                   read_q, write_q, taskVars, histVars, handlerVars,
                   stream_no, yielded, recv_res>>

\* Drop for MessageStream: *self.slot = Some(stream.into_inner()); the
\* receiver, with whatever the channel still holds, is back in the client.
StreamDrop ==
    /\ stream = "messages"
    /\ stream' = "none"
    /\ UNCHANGED <<clientVars, queryVars, transportVars, childVars, read_q,
                   write_q, consumer_q, taskVars, histVars, handlerVars,
                   stream_no, yielded, recv_res>>

\* ClaudeSDKClient::receive_response up to its first await: a stream is
\* taken and collect_until_result starts with an empty vector.
ReceiveResponse ==
    /\ stream = "none" /\ stream_no < MaxStreams
    /\ query = "Some" /\ message_rx
    /\ stream' = "response"
    /\ stream_no' = stream_no + 1
    /\ recv_res' = NoRecv
    /\ UNCHANGED <<clientVars, queryVars, transportVars, childVars, read_q,
                   write_q, consumer_q, taskVars, histVars, handlerVars,
                   yielded>>

\* For comparison with ResponseNext: a collector that does not stop at the
\* Result message.
ResponseNextDrains ==
    /\ stream = "response" /\ consumer_q # <<>>
    /\ LET item == Head(consumer_q)
           collected == YieldedBy(yielded, stream_no)
       IN  /\ consumer_q' = Tail(consumer_q)
           /\ yielded' = Append(yielded, [item |-> item, by |-> stream_no])
           /\ IF IsErr(item)
              THEN /\ recv_res' = [res |-> "Err", msgs |-> <<>>, err |-> item]
                   /\ stream' = "none"
              ELSE UNCHANGED <<recv_res, stream>>
    /\ UNCHANGED <<clientVars, queryVars, transportVars, childVars, read_q,
                   write_q, taskVars, histVars, handlerVars, stream_no>>

\* collect_until_result, stream.next() yields Some(item): an Err is returned
\* at once (msg?), a message is pushed, and a Result message ends the loop;
\* the stream is dropped on return.
ResponseNext ==
    /\ stream = "response" /\ consumer_q # <<>>
    /\ LET item == Head(consumer_q)
           collected == YieldedBy(yielded, stream_no)
       IN  /\ consumer_q' = Tail(consumer_q)
           /\ yielded' = Append(yielded, [item |-> item, by |-> stream_no])
           /\ IF IsErr(item)
              THEN /\ recv_res' = [res |-> "Err", msgs |-> <<>>, err |-> item]
                   /\ stream' = "none"
              ELSE IF item.type = "result"
              THEN /\ recv_res' = [res |-> "Ok", msgs |-> Append(collected, item),
                                   err |-> NoFrame]
                   /\ stream' = "none"
              ELSE UNCHANGED <<recv_res, stream>>
    /\ UNCHANGED <<clientVars, queryVars, transportVars, childVars, read_q,
                   write_q, taskVars, histVars, handlerVars, stream_no>>

\* collect_until_result, stream.next() yields None (the router has returned
\* and the channel is empty): Ok with what was collected.
ResponseEnd ==
    /\ stream = "response" /\ consumer_q = <<>> /\ Exited(router_pc)
    /\ recv_res' = [res |-> "Ok", msgs |-> YieldedBy(yielded, stream_no),
                    err |-> NoFrame]
    /\ stream' = "none"
    /\ UNCHANGED <<clientVars, queryVars, transportVars, childVars, read_q,
                   write_q, consumer_q, taskVars, histVars, handlerVars,
                   stream_no, yielded>>

\* ------------------------------------------------------------ child process
\* The request ids the child can answer: those it has read.
KnownIds == child_seen

\* The JSON values the child may write as line n of its stdout: a
\* control_response for an id it knows or for one that is in no table (0), a
\* control_request of its own, a content frame.
ChildFrames(n) ==
    {Frame("control_response", r, "", n) : r \in KnownIds \cup {0}}
    \cup {Frame("control_request", ChildRid(n), s, n) : s \in Subtypes}
    \cup {Frame(t, 0, "", n) : t \in ContentTypes}

\* The child exits (or is killed by something else).
ChildExit ==
    /\ child_alive
    /\ child_alive' = FALSE
    /\ UNCHANGED <<clientVars, queryVars, transportVars, nlines, child_seen,
                   read_q, write_q, consumer_q, taskVars, histVars, handlerVars,
                   streamVars>>

\* ------------------------------------------------------------ stdout task
\* stdout_tx.send(item).await from the stdout task: fails when the router has
\* dropped raw_rx, waits while the queue is full.
StdoutSend(item, then) ==
    IF ReadClosed
    THEN /\ stdout_pc' = (IF then = "run" THEN "exit_closed" ELSE then)
         /\ stdout_hold' = NoFrame
         /\ UNCHANGED read_q
    ELSE IF ReadRoom
    THEN /\ read_q' = Append(read_q, item)
         /\ stdout_pc' = then
         /\ stdout_hold' = NoFrame
    ELSE /\ stdout_pc' = (IF then = "run" THEN "blocked" ELSE "blocked_err")
         /\ stdout_hold' = item
         /\ UNCHANGED read_q

\* cancelled() wins the select.
StdoutCancel ==
    /\ stdout_pc = "run" /\ transport_cancel
    /\ stdout_pc' = "exit_cancel"
    /\ UNCHANGED <<clientVars, queryVars, transportVars, childVars, read_q,
                   write_q, consumer_q, stdout_hold, stdin_pc, stderr_pc,
                   router_pc, router_hold, histVars, handlerVars,
                   streamVars>>

\* For comparison with StdoutSkip: a reader that gives up at the first line
\* it cannot use.
StdoutSkipStops ==
    /\ stdout_pc = "run" /\ nlines < MaxLines
    /\ nlines' = nlines + 1
    /\ last_skip' = nlines + 1
    /\ stdout_pc' = "exit_err"
    /\ UNCHANGED <<clientVars, queryVars, transportVars, child_alive,
                   child_seen, read_q, write_q, consumer_q, stdout_hold,
                   stdin_pc, stderr_pc, router_pc, router_hold, last_send, handlerVars,
                   streamVars>>

\* next_line() yields Ok(Some(line)) with a line that is empty after trim(),
\* or that serde_json cannot parse: skipped (continue / warn).
StdoutSkip ==
    /\ stdout_pc = "run" /\ nlines < MaxLines
    /\ nlines' = nlines + 1
    /\ last_skip' = nlines + 1
    /\ UNCHANGED <<clientVars, queryVars, transportVars, child_alive,
                   child_seen, read_q, write_q, consumer_q, taskVars,
                   last_send, handlerVars,
                   streamVars>>

\* next_line() yields Ok(Some(line)) with a JSON value: sent as Ok(value).
StdoutLine ==
    /\ stdout_pc = "run" /\ nlines < MaxLines
    /\ nlines' = nlines + 1
    /\ \E f \in ChildFrames(nlines + 1) : StdoutSend(f, "run")
    /\ UNCHANGED <<clientVars, queryVars, transportVars, child_alive,
                   child_seen, write_q, consumer_q, stdin_pc, stderr_pc,
                   router_pc, router_hold, histVars, handlerVars,
                   streamVars>>

\* next_line() yields Err(e) (a line that is not UTF-8, a failed read):
\* Err(Error::Io) is sent and the loop ends.
StdoutIoErr ==
    /\ stdout_pc = "run" /\ nlines < MaxLines
    /\ nlines' = nlines + 1
    /\ StdoutSend(Frame("Err(Io)", 0, "", nlines + 1), "exit_err")
    /\ UNCHANGED <<clientVars, queryVars, transportVars, child_alive,
                   child_seen, write_q, consumer_q, stdin_pc, stderr_pc,
                   router_pc, router_hold, histVars, handlerVars,
                   streamVars>>

\* The send the task was waiting in completes or fails.
StdoutUnblock ==
    /\ stdout_pc \in {"blocked", "blocked_err"}
    /\ ReadClosed \/ ReadRoom
    /\ StdoutSend(stdout_hold, IF stdout_pc = "blocked" THEN "run" ELSE "exit_err")
    /\ UNCHANGED <<clientVars, queryVars, transportVars, childVars, write_q,
                   consumer_q, stdin_pc, stderr_pc, router_pc, router_hold,
                   histVars, handlerVars,
                   streamVars>>

\* next_line() yields Ok(None): the child closed its stdout.
StdoutEof ==
    /\ stdout_pc = "run" /\ ~child_alive
    /\ stdout_pc' = "exit_eof"
    /\ UNCHANGED <<clientVars, queryVars, transportVars, childVars, read_q,
                   write_q, consumer_q, stdout_hold, stdin_pc, stderr_pc,
                   router_pc, router_hold, histVars, handlerVars,
                   streamVars>>

\* ------------------------------------------------------------ stdin task
StdinCancel ==
    /\ stdin_pc = "run" /\ transport_cancel
    /\ stdin_pc' = "exit_cancel"
    /\ write_q' = <<>>
    /\ UNCHANGED <<clientVars, queryVars, transportVars, childVars, read_q,
                   consumer_q, stdout_pc, stdout_hold, stderr_pc, router_pc,
                   router_hold, histVars, handlerVars,
                   streamVars>>

\* For comparison with StdinWrite: a loop that logs a failed write and goes
\* on with the next frame.
StdinWriteGoesOn ==
    /\ stdin_pc = "run" /\ write_q # <<>>
    /\ write_q' = Tail(write_q)
    /\ child_seen' = (IF child_alive /\ Head(write_q).type = "control_request"
                      THEN child_seen \cup {Head(write_q).rid}
                      ELSE child_seen)
    /\ UNCHANGED <<clientVars, queryVars, transportVars, child_alive, nlines,
                   read_q, consumer_q, taskVars, histVars, handlerVars,
                   streamVars>>

\* For comparison with StdinWrite: a loop that writes the frame accepted last.
StdinWriteNewest ==
    /\ stdin_pc = "run" /\ write_q # <<>>
    /\ IF child_alive
       THEN /\ write_q' = SubSeq(write_q, 1, Len(write_q) - 1)
            /\ child_seen' = (IF write_q[Len(write_q)].type = "control_request"
                              THEN child_seen \cup {write_q[Len(write_q)].rid}
                              ELSE child_seen)
            /\ UNCHANGED stdin_pc
       ELSE /\ stdin_pc' = "exit_err"
            /\ write_q' = <<>>
            /\ UNCHANGED child_seen
    /\ UNCHANGED <<clientVars, queryVars, transportVars, child_alive, nlines,
                   read_q, consumer_q, stdout_pc, stdout_hold, stderr_pc,
                   router_pc, router_hold, histVars, handlerVars,
                   streamVars>>

\* write_rx.recv() yields Some(value): serialized, written and flushed (the
\* child can read it from then on); a failed write or flush (the child no
\* longer reads) ends the loop.
StdinWrite ==
    /\ stdin_pc = "run" /\ write_q # <<>>
    /\ IF child_alive
       THEN /\ write_q' = Tail(write_q)
            /\ child_seen' = (IF Head(write_q).type = "control_request"
                              THEN child_seen \cup {Head(write_q).rid}
                              ELSE child_seen)
            /\ UNCHANGED stdin_pc
       ELSE /\ stdin_pc' = "exit_err"
            /\ write_q' = <<>>
            /\ UNCHANGED child_seen
    /\ UNCHANGED <<clientVars, queryVars, transportVars, child_alive, nlines,
                   read_q, consumer_q, stdout_pc, stdout_hold, stderr_pc,
                   router_pc, router_hold, histVars, handlerVars,
                   streamVars>>

\* write_rx.recv() yields None: every TransportWriter clone (Query.writer,
\* the router's) has been dropped.
StdinClosed ==
    /\ stdin_pc = "run" /\ write_q = <<>>
    /\ ~writer /\ Exited(router_pc)
    /\ stdin_pc' = "exit_closed"
    /\ UNCHANGED <<clientVars, queryVars, transportVars, childVars, read_q,
                   write_q, consumer_q, stdout_pc, stdout_hold, stderr_pc,
                   router_pc, router_hold, histVars, handlerVars,
                   streamVars>>

\* ------------------------------------------------------------ stderr task
StderrCancel ==
    /\ stderr_pc = "run" /\ transport_cancel
    /\ stderr_pc' = "exit"
    /\ UNCHANGED <<clientVars, queryVars, transportVars, childVars, read_q,
                   write_q, consumer_q, stdout_pc, stdout_hold, stdin_pc,
                   router_pc, router_hold, histVars, handlerVars,
                   streamVars>>

\* A stderr line goes to the on_stderr callback or to the debug log.
StderrLine ==
    /\ stderr_pc = "run" /\ child_alive
    /\ UNCHANGED vars

\* Ok(None) | Err(_): the child closed its stderr.
StderrEof ==
    /\ stderr_pc = "run" /\ ~child_alive
    /\ stderr_pc' = "exit"
    /\ UNCHANGED <<clientVars, queryVars, transportVars, childVars, read_q,
                   write_q, consumer_q, stdout_pc, stdout_hold, stdin_pc,
                   router_pc, router_hold, histVars, handlerVars,
                   streamVars>>

\* ------------------------------------------------------------ router task
Min(S) == CHOOSE x \in S : \A y \in S : x <= y

\* route_control_response: the request id the response is matched by, read
\* from the (nested) response object; 0 stands for a missing or unknown id,
\* which the code reads as "".
RouteId(f) == f.rid

\* For comparison with MatchPending: a correlator that matches responses to
\* requests by send order, the oldest pending entry first.
MatchOldest(f) ==
    IF pending_responses = {} THEN {} ELSE {Min(pending_responses)}

\* route_control_response: the entry pending.remove(request_id) takes out of
\* the table, if any.
MatchPending(f) ==
    IF RouteId(f) \in pending_responses THEN {RouteId(f)} ELSE {}

\* For comparison with Receivers: a response handed to whichever caller is
\* waiting, whatever entry it was matched to.
AnyReceiver(id) ==
    {c \in Calls : call[c].pc \in {"write", "await"} /\ call[c].got = NoFrame}

\* The calls whose oneshot receiver for entry id is still alive: the call
\* created it before its write and drops it when it returns.
Receivers(id) ==
    {c \in Calls : call[c].id = id /\ call[c].pc \in {"write", "await"}
                   /\ call[c].got = NoFrame}

\* parse_message: a value without a string "type" is Err(MessageParse), the
\* others parse into the Message of their type.
ParseMessage(f) ==
    IF f.type = "" THEN Frame("Err(MessageParse)", 0, "", f.seq)
    ELSE Frame(f.type, 0, "", f.seq)

\* The response body dispatch_control_request computes for a subtype: the
\* handlers' bodies, and the {"error": "unknown subtype: ..."} fallback.
ResponseBody(sub) ==
    CASE sub = "can_use_tool" -> "behavior"
      [] sub = "hook_callback" -> "continue"
      [] sub = "mcp_message" -> "mcp"
      [] OTHER -> "error: unknown subtype"

\* Whether dispatch_control_request gets as far as answering: it returns
\* early, with a warning only, when the frame has no "request" field.
Answers(f) == f.sub # "absent"

\* The control_response frame dispatch_control_request writes back.
ControlResponse(f) == Frame("control_response", f.rid, ResponseBody(f.sub), f.seq)

\* The router task returns: raw_rx, consumer_tx, its writer clone and its
\* clone of the pending table go with it.
RouterExit(how) ==
    /\ router_pc' = how
    /\ router_hold' = NoFrame
    /\ read_q' = <<>>

\* cancelled() wins the select.
RouterCancel ==
    /\ router_pc = "run" /\ cancel
    /\ RouterExit("exit_cancel")
    /\ UNCHANGED <<clientVars, queryVars, transportVars, childVars, write_q,
                   consumer_q, stdout_pc, stdout_hold, stdin_pc, stderr_pc,
                   histVars, handlerVars,
                   streamVars>>

\* raw_rx.recv() yields None: the stdout task has returned and the queue is
\* drained. The loop breaks; nothing else is done.
RouterClosed ==
    /\ router_pc = "run" /\ read_q = <<>> /\ Exited(stdout_pc)
    /\ RouterExit("exit_closed")
    /\ UNCHANGED <<clientVars, queryVars, transportVars, childVars, write_q,
                   consumer_q, stdout_pc, stdout_hold, stdin_pc, stderr_pc,
                   histVars, handlerVars,
                   streamVars>>

\* "control_response" => route_control_response(&pending, &value).await
RouterControlResponse ==
    /\ router_pc = "run" /\ read_q # <<>>
    /\ Head(read_q).type = "control_response"
    /\ LET f == Head(read_q)
           hit == MatchPending(f)
       IN  /\ read_q' = Tail(read_q)
           /\ pending_responses' = pending_responses \ hit
           /\ IF hit = {}
              THEN /\ UNCHANGED call
              ELSE LET rc == UNION {Receivers(id) : id \in hit}
                   IN  IF rc = {}
                       THEN /\ UNCHANGED call
                       ELSE /\ call' = [c \in Calls |->
                                         IF c \in rc
                                         THEN [call[c] EXCEPT !.got = f]
                                         ELSE call[c]]
    /\ UNCHANGED <<clientVars, writer, cancel, server_info, next_id,
                   transportVars, childVars, write_q, consumer_q, taskVars, histVars, handlerVars,
                   streamVars>>

\* writer.write(control_response).await at the end of
\* dispatch_control_request: a failure is logged, a full queue is waited for.
RouterWrite(f) ==
    IF WriteClosed
    THEN /\ router_pc' = "run" /\ router_hold' = NoFrame
         /\ UNCHANGED write_q
    ELSE IF WriteRoom
    THEN /\ Enqueue(ControlResponse(f))
         /\ router_pc' = "run" /\ router_hold' = NoFrame
    ELSE /\ router_pc' = "blocked_resp" /\ router_hold' = f
         /\ UNCHANGED write_q

\* For comparison with RouterControlRequest: a router that spawns the
\* handler it would have to wait for and goes on reading, so that a later
\* request can be answered while the handler runs.
RouterControlRequestSpawns ==
    /\ read_q # <<>>
    /\ Head(read_q).type = "control_request"
    /\ LET f == Head(read_q)
       IN  /\ read_q' = Tail(read_q)
           /\ \/ /\ router_pc = "run"
                 /\ IF Answers(f)
                    THEN \/ RouterWrite(f)
                         \/ /\ router_pc' = "handler" /\ router_hold' = f
                            /\ UNCHANGED write_q
                    ELSE /\ UNCHANGED <<write_q, router_pc, router_hold>>
              \/ /\ router_pc = "handler"
                 /\ Answers(f) /\ ~WriteClosed /\ WriteRoom
                 /\ Enqueue(ControlResponse(f))
                 /\ UNCHANGED <<router_pc, router_hold>>
    /\ UNCHANGED <<clientVars, queryVars, transportVars, childVars,
                   consumer_q, stdout_pc, stdout_hold, stdin_pc, stderr_pc,
                   histVars, handlerVars,
                   streamVars>>

\* "control_request" => dispatch_control_request(...).await: the handler
\* either computes its body at once (no capability registered) or awaits the
\* application's callback (cb(CanUseToolInput { .. }).await), and the
\* router task with it.
RouterControlRequest ==
    /\ router_pc = "run" /\ read_q # <<>>
    /\ Head(read_q).type = "control_request"
    /\ LET f == Head(read_q)
       IN  /\ read_q' = Tail(read_q)
           /\ IF Answers(f)
              THEN \/ RouterWrite(f)
                   \/ /\ router_pc' = "handler" /\ router_hold' = f
                      /\ UNCHANGED write_q
              ELSE /\ UNCHANGED <<write_q, router_pc, router_hold>>
    /\ UNCHANGED <<clientVars, queryVars, transportVars, childVars,
                   consumer_q, stdout_pc, stdout_hold, stdin_pc, stderr_pc,
                   histVars, handlerVars,
                   streamVars>>

\* For comparison with RouterForward: a router that hands every item to the
\* consumer at once, ahead of the items still waiting to be received.
RouterForwardFront(f, item, after) ==
    /\ consumer_q' = <<item>> \o consumer_q
    /\ IF after = "run"
       THEN /\ router_pc' = "run" /\ router_hold' = NoFrame
            /\ read_q' = (IF router_pc = "run" THEN Tail(read_q) ELSE read_q)
       ELSE RouterExit(after)

\* consumer_tx.send(item).await: fails when the consumer receiver is dropped
\* (the loop breaks), waits while the queue is full. after is where the loop
\* goes when the send succeeded: "run", or "exit_err" for the Some(Err(e)) arm
\* that breaks whatever the send returned.
RouterForward(f, item, after) ==
    IF ConsumerClosed
    THEN /\ RouterExit(IF after = "run" THEN "exit_closed" ELSE after)
         /\ UNCHANGED consumer_q
    ELSE IF ConsumerRoom
    THEN /\ consumer_q' = Append(consumer_q, item)
         /\ IF after = "run"
            THEN /\ router_pc' = "run" /\ router_hold' = NoFrame
                 /\ read_q' = (IF router_pc = "run" THEN Tail(read_q) ELSE read_q)
            ELSE RouterExit(after)
    ELSE /\ router_pc' = (IF after = "run" THEN "blocked" ELSE "blocked_err")
         /\ router_hold' = f
         /\ read_q' = (IF router_pc = "run" THEN Tail(read_q) ELSE read_q)
         /\ UNCHANGED <<consumer_q>>

\* For comparison with RouterContent: a router that treats a frame that
\* fails to parse like a transport error and ends its loop after it.
RouterContentStopsOnError ==
    /\ router_pc = "run" /\ read_q # <<>>
    /\ Head(read_q).type \notin {"control_response", "control_request", "Err(Io)"}
    /\ RouterForward(Head(read_q), ParseMessage(Head(read_q)),
                     IF IsErr(ParseMessage(Head(read_q))) THEN "exit_err" ELSE "run")
    /\ UNCHANGED <<clientVars, queryVars, transportVars, childVars, write_q,
                   stdout_pc, stdout_hold, stdin_pc, stderr_pc, histVars, handlerVars,
                   streamVars>>

\* For comparison with RouterContent: a router whose last arm also takes the
\* control frames, so that they are forwarded to the consumer.
RouterContentAll ==
    /\ router_pc = "run" /\ read_q # <<>>
    /\ Head(read_q).type # "Err(Io)"
    /\ RouterForward(Head(read_q), ParseMessage(Head(read_q)), "run")
    /\ UNCHANGED <<clientVars, queryVars, transportVars, childVars, write_q,
                   stdout_pc, stdout_hold, stdin_pc, stderr_pc, histVars, handlerVars,
                   streamVars>>

\* _ => consumer_tx.send(parse_message(value)).await
RouterContent ==
    /\ router_pc = "run" /\ read_q # <<>>
    /\ Head(read_q).type \notin {"control_response", "control_request", "Err(Io)"}
    /\ RouterForward(Head(read_q), ParseMessage(Head(read_q)), "run")
    /\ UNCHANGED <<clientVars, queryVars, transportVars, childVars, write_q,
                   stdout_pc, stdout_hold, stdin_pc, stderr_pc, histVars, handlerVars,
                   streamVars>>

\* Some(Err(e)) => { let _ = consumer_tx.send(Err(e)).await; break; }
RouterErr ==
    /\ router_pc = "run" /\ read_q # <<>>
    /\ Head(read_q).type = "Err(Io)"
    /\ RouterForward(Head(read_q), Head(read_q), "exit_err")
    /\ UNCHANGED <<clientVars, queryVars, transportVars, childVars, write_q,
                   stdout_pc, stdout_hold, stdin_pc, stderr_pc, histVars, handlerVars,
                   streamVars>>

\* The consumer send the router was waiting in completes or fails.
RouterUnblock ==
    /\ router_pc \in {"blocked", "blocked_err"}
    /\ ConsumerClosed \/ ConsumerRoom
    /\ RouterForward(router_hold,
                     IF router_pc = "blocked" THEN ParseMessage(router_hold)
                     ELSE router_hold,
                     IF router_pc = "blocked" THEN "run" ELSE "exit_err")
    /\ UNCHANGED <<clientVars, queryVars, transportVars, childVars, write_q,
                   stdout_pc, stdout_hold, stdin_pc, stderr_pc, histVars, handlerVars,
                   streamVars>>

\* The application's callback returns: the handler builds the body and
\* dispatch_control_request writes the response.
RouterHandlerReturn ==
    /\ router_pc = "handler"
    /\ RouterWrite(router_hold)
    /\ UNCHANGED <<clientVars, queryVars, transportVars, childVars, read_q,
                   consumer_q, stdout_pc, stdout_hold, stdin_pc, stderr_pc,
                   histVars, handlerVars,
                   streamVars>>

\* The write of a control_response the router was waiting in completes or
\* fails.
RouterWriteUnblock ==
    /\ router_pc = "blocked_resp"
    /\ WriteClosed \/ WriteRoom
    /\ RouterWrite(router_hold)
    /\ UNCHANGED <<clientVars, queryVars, transportVars, childVars, read_q,
                   consumer_q, stdout_pc, stdout_hold, stdin_pc, stderr_pc,
                   histVars, handlerVars,
                   streamVars>>

\* ------------------------------------------------- control request handlers
\* The characters "0".."9" in order.
DigitChars == <<"0", "1", "2", "3", "4", "5", "6", "7", "8", "9">>

IsDigit(ch) == \E d \in 1..10 : DigitChars[d] = ch

DigitValue(ch) == (CHOOSE d \in 1..10 : DigitChars[d] = ch) - 1

\* "hook_"
HookPrefix == <<"h", "o", "o", "k", "_">>

\* No value: the None of an Option<usize>.
None == -1

\* str::strip_prefix("hook_"): the rest of the string, or None.
StripPrefix(s) ==
    IF Len(s) >= Len(HookPrefix) /\ SubSeq(s, 1, Len(HookPrefix)) = HookPrefix
    THEN [some |-> TRUE, rest |-> SubSeq(s, Len(HookPrefix) + 1, Len(s))]
    ELSE [some |-> FALSE, rest |-> <<>>]

RECURSIVE DecimalValue(_)
DecimalValue(ds) ==
    IF ds = <<>> THEN 0
    ELSE 10 * DecimalValue(SubSeq(ds, 1, Len(ds) - 1)) + DigitValue(ds[Len(ds)])

\* s.parse::<usize>().ok(): an optional "+" followed by one or more decimal
\* digits, leading zeros allowed; anything else is None.
ParseUsize(s) ==
    LET ds == IF s # <<>> /\ s[1] = "+" THEN Tail(s) ELSE s
    IN  IF ds # <<>> /\ \A k \in 1..Len(ds) : IsDigit(ds[k])
        THEN DecimalValue(ds)
        ELSE None

\* The decimal digits of i: the <i> of the callback id hook_<i>.
RECURSIVE FormatIndex(_)
FormatIndex(i) ==
    IF i < 10 THEN <<DigitChars[i + 1]>>
    ELSE FormatIndex(i \div 10) \o <<DigitChars[(i % 10) + 1]>>

CallbackId(i) == HookPrefix \o FormatIndex(i)

\* Option<HookDecision> returned by a hook's callback.
Decisions == {"none", "approve", "block", "ignore"}

\* The hook lists an application may register.
HookLists == UNION {[1..n -> Decisions] : n \in 0..MaxHooks}

\* The characters a callback id may have after its prefix.
IdChars == {DigitChars[d] : d \in 1..(MaxHooks + 1)} \cup {"+", "x"}

IdTails == UNION {[1..n -> IdChars] : n \in 0..MaxIdLen}

\* The callback ids a request may carry: the empty one stands for a missing
\* or non-string callback_id, which the handler reads as "".
CallbackIds ==
    {p \o t : p \in {HookPrefix, <<"h", "o", "o", "k">>, <<"H", "o", "o", "k", "_">>, <<>>},
              t \in IdTails}

\* hook_index.and_then(|i| hooks.get(i)): the index of the hook the request
\* names, or None.
HookIndex(callback_id) ==
    LET sp == StripPrefix(callback_id)
        i == IF sp.some THEN ParseUsize(sp.rest) ELSE None
    IN  IF i # None /\ i < Len(hooks) THEN i ELSE None

\* For comparison with HookResult: a body that never stops the turn.
HookResultAlwaysContinue(decision) ==
    [continue |-> TRUE,
     permissionDecision |-> CASE decision = "approve" -> "approve"
                              [] decision = "block" -> "deny"
                              [] decision = "ignore" -> "ignore"
                              [] OTHER -> "absent"]

\* The body built from the callback's output: {"continue": true}, with
\* hookSpecificOutput when the callback returned a decision and continue
\* false when that decision is Block.
HookResult(decision) ==
    [continue |-> decision # "block",
     permissionDecision |-> CASE decision = "approve" -> "approve"
                              [] decision = "block" -> "deny"
                              [] decision = "ignore" -> "ignore"
                              [] OTHER -> "absent"]

\* Some(callback): the PermissionResult { allowed, reason } it returns.
Capability(allowed, reason) == [some |-> TRUE, allowed |-> allowed, reason |-> reason]

\* Option<String> reasons a permission callback may give.
Reasons == {"None", "not allowed"}

PermissionCaps ==
    {NoCapability} \cup {Capability(a, r) : a \in BOOLEAN, r \in Reasons}

\* result.reason.unwrap_or_default()
UnwrapOrDefault(reason) == IF reason = "None" THEN "" ELSE reason

\* For comparison with HandleCanUseTool: a handler that denies when no
\* permission callback was supplied.
HandleCanUseToolDefaultDeny ==
    /\ request.subtype = "can_use_tool" /\ response = NoResponse
    /\ IF can_use_tool.some
       THEN /\ permission_calls' = permission_calls + 1
            /\ response' = IF can_use_tool.allowed
                           THEN [behavior |-> "allow"]
                           ELSE [behavior |-> "deny",
                                 message |-> UnwrapOrDefault(can_use_tool.reason)]
       ELSE /\ response' = [behavior |-> "deny", message |-> ""]
            /\ UNCHANGED permission_calls
    /\ UNCHANGED <<clientVars, queryVars, transportVars, childVars, read_q,
                   write_q, consumer_q, taskVars, histVars, capVars, request,
                   hook_calls, mcp_calls,
                   streamVars>>

\* handle_can_use_tool(request, can_use_tool).
HandleCanUseTool ==
    /\ request.subtype = "can_use_tool" /\ response = NoResponse
    /\ IF can_use_tool.some
       THEN /\ permission_calls' = permission_calls + 1
            /\ response' = IF can_use_tool.allowed
                           THEN [behavior |-> "allow"]
                           ELSE [behavior |-> "deny",
                                 message |-> UnwrapOrDefault(can_use_tool.reason)]
       ELSE /\ response' = [behavior |-> "allow"]
            /\ UNCHANGED permission_calls
    /\ UNCHANGED <<clientVars, queryVars, transportVars, childVars, read_q,
                   write_q, consumer_q, taskVars, histVars, capVars, request,
                   hook_calls, mcp_calls,
                   streamVars>>

\* Names under which in-process MCP servers may be registered, and the names
\* a request may carry ("" stands for a missing server_name too).
McpNames == {"a", "b"}
RequestedNames == McpNames \cup {"c", ""}

\* The "message" of an mcp_message request: a JSON-RPC call, or Null when
\* the field is missing.
McpMessages == {"tools/list", "Null"}

\* SdkMcpServer::handle_message: the JSON-RPC reply of server name to msg.
ServerReply(name, msg) == [jsonrpc |-> "2.0", from |-> name, to |-> msg]

\* For comparison with McpHandler: a handler that falls back on some
\* registered server when no server has the requested name.
McpHandlerFallback(name, msg) ==
    LET srv == IF name \in mcp_servers THEN name
               ELSE CHOOSE n \in mcp_servers : TRUE
    IN  [invoked |-> <<<<srv, msg>>>>, body |-> ServerReply(srv, msg)]

\* The handler build_mcp_handler makes: the named server's reply, or an
\* error body when no server has that name.
McpHandler(name, msg) ==
    IF name \in mcp_servers
    THEN [invoked |-> <<<<name, msg>>>>, body |-> ServerReply(name, msg)]
    ELSE [invoked |-> <<>>, body |-> [error |-> <<"unknown MCP server: ", name>>]]

\* handle_mcp_message(request, mcp_handler); the handler is None when no
\* server was registered.
HandleMcpMessage ==
    /\ request.subtype = "mcp_message" /\ response = NoResponse
    /\ IF mcp_servers # {}
       THEN LET out == McpHandler(request.server_name, request.message)
            IN  /\ mcp_calls' = mcp_calls \o out.invoked
                /\ response' = out.body
       ELSE /\ response' = [error |-> <<"no MCP handler registered">>]
            /\ UNCHANGED mcp_calls
    /\ UNCHANGED <<clientVars, queryVars, transportVars, childVars, read_q,
                   write_q, consumer_q, taskVars, histVars, capVars, request,
                   hook_calls, permission_calls,
                   streamVars>>

\* The subtypes dispatch_control_request has a handler for.
KnownSubtypes == {"can_use_tool", "hook_callback", "mcp_message"}

\* Subtypes it has none for; a missing or non-string subtype reads as "".
UnknownSubtypes == {"", "interrupt"}

\* dispatch_control_request, the last arm of the match on the subtype: a
\* warning is logged and the body is {"error": "unknown subtype: <other>"}.
HandleUnknownSubtype ==
    /\ request.subtype \notin KnownSubtypes /\ request # NoRequest
    /\ response = NoResponse
    /\ response' = [error |-> <<"unknown subtype: ", request.subtype>>]
    /\ UNCHANGED <<clientVars, queryVars, transportVars, childVars, read_q,
                   write_q, consumer_q, taskVars, histVars, capVars, request,
                   invokedVars, streamVars>>

\* For comparison with HandleHookCallback: a handler that takes the index
\* in the callback id as a position counted from one.
HandleHookCallbackFromOne ==
    /\ request.subtype = "hook_callback" /\ response = NoResponse
    /\ LET i == HookIndex(request.callback_id)
       IN  IF i # None /\ i >= 1
           THEN /\ hook_calls' = Append(hook_calls, i - 1)
                /\ response' = HookResult(hooks[i])
           ELSE /\ response' = [continue |-> TRUE, permissionDecision |-> "absent"]
                /\ UNCHANGED hook_calls
    /\ UNCHANGED <<clientVars, queryVars, transportVars, childVars, read_q,
                   write_q, consumer_q, taskVars, histVars, capVars, request,
                   permission_calls, mcp_calls,
                   streamVars>>

\* handle_hook_callback(request, hooks).
HandleHookCallback ==
    /\ request.subtype = "hook_callback" /\ response = NoResponse
    /\ LET i == HookIndex(request.callback_id)
       IN  IF i # None
           THEN /\ hook_calls' = Append(hook_calls, i)
                /\ response' = HookResult(hooks[i + 1])
           ELSE /\ response' = [continue |-> TRUE, permissionDecision |-> "absent"]
                /\ UNCHANGED hook_calls
    /\ UNCHANGED <<clientVars, queryVars, transportVars, childVars, read_q,
                   write_q, consumer_q, taskVars, histVars, capVars, request,
                   permission_calls, mcp_calls,
                   streamVars>>

\* ------------------------------------------------------------ specification
Next ==
    \/ ConnectSpawnFail
    \/ ConnectStart
    \/ InitTimeout
    \/ \E p \in BOOLEAN : InitReturn(p)
    \/ CmdRefused
    \/ \E c \in Cmds : CmdBegin(c)
    \/ \E c \in Cmds : CmdWrite(c)
    \/ \E c \in Cmds : CmdTimeout(c)
    \/ \E c \in Cmds : CmdReturn(c)
    \/ ClientQuery
    \/ ClientDisconnect
    \/ ConsumerRecv
    \/ ChildExit
    \/ StdoutCancel
    \/ StdoutSkip
    \/ StdoutLine
    \/ StdoutIoErr
    \/ StdoutUnblock
    \/ StdoutEof
    \/ StdinCancel
    \/ StdinWrite
    \/ StdinClosed
    \/ StderrCancel
    \/ StderrLine
    \/ StderrEof
    \/ RouterCancel
    \/ RouterClosed
    \/ RouterControlResponse
    \/ RouterControlRequest
    \/ RouterHandlerReturn
    \/ RouterContent
    \/ RouterErr
    \/ RouterUnblock
    \/ RouterWriteUnblock

Spec == Init /\ [][Next]_vars

\* The session once connect(None) has returned Ok: the state Spec reaches by
\* ConnectStart, StdinWrite, StdoutLine (the init response),
\* RouterControlResponse and InitReturn(FALSE). nlines counts the lines the
\* child writes from here on; the init response is line 0.
InitReady ==
    /\ query = "Some" /\ conn = "Ok" /\ conn_err = "" /\ message_rx = TRUE
    /\ writer = TRUE /\ cancel = FALSE /\ pending_responses = {}
    /\ server_info = Frame("control_response", 1, "", 0) /\ next_id = 2
    /\ call = [c \in Calls |->
                IF c = 0
                THEN [pc |-> "done", id |-> 1,
                      got |-> Frame("control_response", 1, "", 0), res |-> "Ok"]
                ELSE NoCall]
    /\ ready = TRUE /\ child = "Some" /\ transport_cancel = FALSE
    /\ child_alive = TRUE /\ nlines = 0 /\ child_seen = {1}
    /\ read_q = <<>> /\ write_q = <<>> /\ consumer_q = <<>>
    /\ stdout_pc = "run" /\ stdout_hold = NoFrame
    /\ stdin_pc = "run" /\ stderr_pc = "run"
    /\ router_pc = "run" /\ router_hold = NoFrame
    /\ last_send = NoSend /\ last_skip = 0
    /\ HandlersIdle /\ StreamsIdle

\* The steps of a connected session and of its shutdown.
NextReady ==
    \/ CmdRefused
    \/ \E c \in Cmds : CmdBegin(c)
    \/ \E c \in Cmds : CmdWrite(c)
    \/ \E c \in Cmds : CmdTimeout(c)
    \/ \E c \in Cmds : CmdReturn(c)
    \/ ClientQuery
    \/ ClientDisconnect
    \/ ConsumerRecv
    \/ ChildExit
    \/ StdoutCancel
    \/ StdoutSkip
    \/ StdoutLine
    \/ StdoutIoErr
    \/ StdoutUnblock
    \/ StdoutEof
    \/ StdinCancel
    \/ StdinWrite
    \/ StdinClosed
    \/ StderrCancel
    \/ StderrLine
    \/ StderrEof
    \/ RouterCancel
    \/ RouterClosed
    \/ RouterControlResponse
    \/ RouterControlRequest
    \/ RouterHandlerReturn
    \/ RouterContent
    \/ RouterErr
    \/ RouterUnblock
    \/ RouterWriteUnblock

SpecReady == InitReady /\ [][NextReady]_vars

\* What the runtime guarantees: a spawned task that can take a step takes
\* one (tokio polls ready tasks, a select! returns one of its ready
\* branches), a timer that has elapsed fires, a future whose oneshot holds a
\* value returns. Nothing is promised about the application (connect,
\* query, commands, disconnect, polling the stream) or about the child
\* (writing a line, exiting).
Fairness ==
    /\ WF_vars(InitTimeout)
    /\ WF_vars(\E p \in BOOLEAN : InitReturn(p))
    /\ \A c \in Cmds : WF_vars(CmdWrite(c))
    /\ \A c \in Cmds : WF_vars(CmdTimeout(c))
    /\ \A c \in Cmds : WF_vars(CmdReturn(c))
    /\ WF_vars(StdoutCancel) /\ WF_vars(StdoutUnblock) /\ WF_vars(StdoutEof)
    /\ WF_vars(StdinCancel) /\ WF_vars(StdinWrite) /\ WF_vars(StdinClosed)
    /\ WF_vars(StderrCancel) /\ WF_vars(StderrEof)
    /\ WF_vars(RouterCancel) /\ WF_vars(RouterClosed)
    /\ WF_vars(RouterControlResponse) /\ WF_vars(RouterControlRequest)
    /\ WF_vars(RouterContent) /\ WF_vars(RouterErr)
    /\ WF_vars(RouterUnblock) /\ WF_vars(RouterWriteUnblock)

SpecFair == Spec /\ Fairness

SpecReadyFair == SpecReady /\ Fairness

\* A connected session whose consumer queue is full: the child has written
\* content after the handshake which the router has forwarded and the
\* application has not taken. nlines counts the lines after that content.
InitBacklog ==
    /\ query = "Some" /\ conn = "Ok" /\ conn_err = "" /\ message_rx = TRUE
    /\ writer = TRUE /\ cancel = FALSE /\ pending_responses = {}
    /\ server_info = Frame("control_response", 1, "", 0) /\ next_id = 2
    /\ call = [c \in Calls |->
                IF c = 0
                THEN [pc |-> "done", id |-> 1,
                      got |-> Frame("control_response", 1, "", 0), res |-> "Ok"]
                ELSE NoCall]
    /\ ready = TRUE /\ child = "Some" /\ transport_cancel = FALSE
    /\ child_alive = TRUE /\ nlines = 0 /\ child_seen = {1}
    /\ read_q = <<>> /\ write_q = <<>>
    /\ consumer_q = [i \in 1..ChanCap |-> ParseMessage(Frame("assistant", 0, "", 0))]
    /\ stdout_pc = "run" /\ stdout_hold = NoFrame
    /\ stdin_pc = "run" /\ stderr_pc = "run"
    /\ router_pc = "run" /\ router_hold = NoFrame
    /\ last_send = NoSend /\ last_skip = 0
    /\ HandlersIdle /\ StreamsIdle

\* The steps of a connected session while the application takes nothing from
\* its receiver and sends no prompt, no control timeout has elapsed yet and
\* the session is not closed.
NextBacklog ==
    \/ \E c \in Cmds : CmdBegin(c)
    \/ \E c \in Cmds : CmdWrite(c)
    \/ \E c \in Cmds : CmdReturn(c)
    \/ ChildExit
    \/ StdoutSkip
    \/ StdoutLine
    \/ StdoutIoErr
    \/ StdoutUnblock
    \/ StdoutEof
    \/ StdinWrite
    \/ StderrLine
    \/ StderrEof
    \/ RouterClosed
    \/ RouterControlResponse
    \/ RouterControlRequest
    \/ RouterHandlerReturn
    \/ RouterContent
    \/ RouterErr
    \/ RouterWriteUnblock

\* The runtime's guarantees as in Fairness, and capability callbacks that
\* return.
FairnessBacklog ==
    /\ \A c \in Cmds : WF_vars(CmdWrite(c))
    /\ \A c \in Cmds : WF_vars(CmdReturn(c))
    /\ WF_vars(StdoutUnblock) /\ WF_vars(StdoutEof)
    /\ WF_vars(StdinWrite)
    /\ WF_vars(StderrEof)
    /\ WF_vars(RouterClosed)
    /\ WF_vars(RouterControlResponse) /\ WF_vars(RouterControlRequest)
    /\ WF_vars(RouterHandlerReturn)
    /\ WF_vars(RouterContent) /\ WF_vars(RouterErr)
    /\ WF_vars(RouterWriteUnblock)

SpecBacklog == InitBacklog /\ [][NextBacklog]_vars /\ FairnessBacklog

\* A client that may be connected again after a failed connect() or a
\* disconnect().
NextReconnect ==
    \/ Next
    \/ Reconnect

SpecReconnect == Init /\ [][NextReconnect]_vars

\* A session on which the application may also call connect() again.
NextConnect ==
    \/ Next
    \/ ConnectRefused

SpecConnect == Init /\ [][NextConnect]_vars

\* A connected session whose messages the application takes through
\* MessageStreams and receive_response; a stream borrows the client
\* exclusively, so prompts are sent only while no stream is alive.
NextStream ==
    \/ stream = "none" /\ ClientQuery
    \/ ReceiveMessages
    \/ StreamNext
    \/ StreamDrop
    \/ ReceiveResponse
    \/ ResponseNext
    \/ ResponseEnd
    \/ ChildExit
    \/ StdoutSkip
    \/ StdoutLine
    \/ StdoutIoErr
    \/ StdoutUnblock
    \/ StdoutEof
    \/ StdinWrite
    \/ StderrLine
    \/ StderrEof
    \/ RouterClosed
    \/ RouterControlResponse
    \/ RouterControlRequest
    \/ RouterHandlerReturn
    \/ RouterContent
    \/ RouterErr
    \/ RouterUnblock
    \/ RouterWriteUnblock

SpecStream == InitReady /\ [][NextStream]_vars

\* The control request handlers on their own: one request handled against
\* the registered capabilities. The capabilities the request's subtype is
\* about take every value; the others are absent or registered.
InitHandlers ==
    /\ InitClient
    /\ \/ /\ request \in {Request("hook_callback", id, "", "Null") :
                              id \in CallbackIds}
          /\ hooks \in HookLists
          /\ can_use_tool \in {NoCapability, Capability(FALSE, "None")}
          /\ mcp_servers = {}
       \/ /\ request = Request("can_use_tool", <<>>, "", "Null")
          /\ can_use_tool \in PermissionCaps
          /\ hooks \in {<<>>, <<"block">>}
          /\ mcp_servers = {}
       \/ /\ request \in {Request("mcp_message", <<>>, n, m) :
                              n \in RequestedNames, m \in McpMessages}
          /\ mcp_servers \in SUBSET McpNames
          /\ hooks \in {<<>>, <<"block">>}
          /\ can_use_tool \in {NoCapability, Capability(FALSE, "None")}
       \/ /\ request \in {Request(s, <<>>, "", "Null") : s \in UnknownSubtypes}
          /\ mcp_servers \in SUBSET McpNames
          /\ hooks \in {<<>>, <<"block">>}
          /\ can_use_tool \in {NoCapability, Capability(FALSE, "None")}
    /\ hook_calls = <<>> /\ permission_calls = 0 /\ mcp_calls = <<>>
    /\ response = NoResponse
    /\ StreamsIdle

NextHandlers ==
    \/ HandleCanUseTool
    \/ HandleHookCallback
    \/ HandleMcpMessage
    \/ HandleUnknownSubtype

SpecHandlers == InitHandlers /\ [][NextHandlers]_vars

\* ------------------------------------------------------------------ claims
\* The router takes frame Head(read_q) off the inbound queue and goes on (it
\* neither returns on cancellation nor is it some other task's step).
RouterTakes(type) ==
    /\ router_pc = "run" /\ read_q # <<>>
    /\ Head(read_q).type = type
    /\ read_q' = Tail(read_q)
    /\ router_pc' \in {"run", "blocked_resp"}

\* C1: for every control_request frame the router reads, whatever its
\* payload, exactly one control_response with the same request_id is
\* enqueued for the child's stdin (or is waiting for room in the queue), as
\* long as the outbound queue is open.
C1_EveryControlRequestAnswered ==
    [][(RouterTakes("control_request") /\ ~WriteClosed) =>
          \/ /\ router_pc' = "blocked_resp"
             /\ router_hold'.rid = Head(read_q).rid
             /\ write_q' = write_q
          \/ /\ router_pc' = "run"
             /\ Len(write_q') = Len(write_q) + 1
             /\ write_q'[Len(write_q')].type = "control_response"
             /\ write_q'[Len(write_q')].rid = Head(read_q).rid]_vars

\* C2: when a control round trip returns ControlTimeout, the pending table
\* holds no entry for its request id in the state in which it returns.
C2_TimeoutRemovesEntry ==
    [][\A c \in Calls :
          (call[c].res # "ControlTimeout" /\ call'[c].res = "ControlTimeout")
             => call'[c].id \notin pending_responses']_vars

\* C3: every caller that has received a response has received the one whose
\* request_id is the id of its own request, and no two callers have received
\* the same response, in whatever order the child answers.
C3_OwnResponse ==
    /\ \A c \in Calls :
          call[c].got # NoFrame =>
             /\ call[c].got.type = "control_response"
             /\ call[c].got.rid = call[c].id
    /\ \A c, d \in Calls :
          (c # d /\ call[c].got # NoFrame /\ call[d].got # NoFrame)
             => call[c].got.seq # call[d].got.seq

\* C3, its case: two commands in flight together, both answered, the second
\* one's response having come first on stdout.
C3_AnsweredInReverse ==
    /\ call[1].pc = "await" /\ call[2].pc = "await"
    /\ call[1].got # NoFrame /\ call[2].got # NoFrame
    /\ call[2].got.seq < call[1].got.seq

\* C4: when the router routes a control_response whose request has already
\* returned ControlTimeout, no caller's state changes (it is delivered to no
\* one, a later command included) and nothing is put on the consumer queue
\* or the outbound queue.
C4_LateResponseDiscarded ==
    [][(/\ RouterTakes("control_response")
        /\ \E c \in Calls : /\ call[c].id = Head(read_q).rid
                            /\ call[c].res = "ControlTimeout")
          => (call' = call /\ consumer_q' = consumer_q /\ write_q' = write_q)]_vars

\* C4, its case: the first command timed out, its late response has been
\* routed since (that is the only step that takes the entry of a timed-out
\* request out of the table), and a later command is still waiting.
C4_LateResponseRouted ==
    /\ call[1].res = "ControlTimeout"
    /\ call[1].id \notin pending_responses
    /\ call[2].pc = "await" /\ call[2].got = NoFrame

\* C6: when the child has exited before writing anything (stdout at end of
\* file, no init response), the error connect() returns is not
\* ControlTimeout.
C6_ExitIsNotTimeout ==
    [][(/\ conn = "initialize" /\ conn' = "Err"
        /\ ~child_alive /\ nlines = 0 /\ stdout_pc = "exit_eof")
          => conn_err' # "ControlTimeout"]_vars

\* C7: when the router returns because the transport closed or failed while
\* the session is connected, every command still waiting for its response
\* is completed (with an error) by that step.
C7_RouterFailsPending ==
    [][(/\ conn = "Ok" /\ Running(router_pc)
        /\ router_pc' \in {"exit_closed", "exit_err"})
          => \A c \in Cmds :
                (call[c].pc = "await" /\ call[c].got = NoFrame)
                   => call'[c] # call[c]]_vars

\* The init handshake has failed.
HandshakeFailed == conn = "Err" /\ call[0].pc = "done" /\ call[0].res # "Ok"

\* C8: once the init handshake has failed, connect() has returned an error,
\* the client holds no engine, every later prompt or control command returns
\* NotConnected, starts no round trip and enqueues no frame for the child.
C8_UnusableAfterFailedHandshake ==
    [][HandshakeFailed =>
          /\ conn_err # ""
          /\ query = "None" /\ query' = "None" /\ conn' = "Err"
          /\ ~writer'
          /\ ~(/\ Len(write_q') = Len(write_q) + 1
               /\ write_q'[Len(write_q')].type \in {"user", "control_request"})
          /\ call' = call
          /\ last_send' # last_send => last_send'.res = "NotConnected"]_vars

\* C8, its case: the handshake failed and a control command was tried
\* afterwards.
C8_CommandAfterFailedHandshake ==
    /\ HandshakeFailed
    /\ last_send = [op |-> "command", at |-> "Err", res |-> "NotConnected"]

\* C9: once connect() has returned an error and the loops it started have
\* wound down, the child process is not alive.
C9_NoChildLeftAfterFailedConnect ==
    (/\ conn = "Err" /\ query = "None"
     /\ ~Running(stdout_pc) /\ ~Running(stdin_pc) /\ ~Running(stderr_pc)
     /\ ~Running(router_pc))
        => ~child_alive

\* C10: while the client holds no engine (before connect() has succeeded,
\* after disconnect()), a prompt returns NotConnected and no user frame is
\* enqueued.
C10_PromptRefusedWhenNotReady ==
    [][(query = "None" /\ query' = "None") =>
          /\ ~(/\ Len(write_q') = Len(write_q) + 1
               /\ write_q'[Len(write_q')].type = "user")
          /\ (last_send' # last_send /\ last_send'.op = "query")
                => last_send'.res = "NotConnected"]_vars

\* C10, its case: a prompt was sent after disconnect() and refused.
C10_PromptAfterDisconnect ==
    /\ conn = "disconnected"
    /\ last_send = [op |-> "query", at |-> "disconnected", res |-> "NotConnected"]

\* The pending table is gone: the Query has been dropped and the router,
\* which holds the other reference to the table, has returned.
TableDropped == query = "None" /\ ~Running(router_pc)

\* C11: under fair scheduling every control request that was sent and is
\* awaited eventually has no entry in the pending table, whether the child
\* answers it in time, late, or never.
C11_EntryEventuallyRemoved ==
    \A c \in Calls :
       (call[c].pc = "await")
          ~> (call[c].id \notin pending_responses \/ TableDropped)

\* The frames on their way from the child's stdout to the consumer, the
\* nearest to the consumer first: the consumer queue, the item the router is
\* sending, the inbound queue, the item the stdout task is sending.
Pipeline ==
    consumer_q
    \o (IF router_hold # NoFrame THEN <<router_hold>> ELSE <<>>)
    \o read_q
    \o (IF stdout_hold # NoFrame THEN <<stdout_hold>> ELSE <<>>)

IsContent(f) == f.type \notin {"control_response", "control_request", "Err(Io)"}

InArrivalOrder(q) == \A i, j \in 1..Len(q) : i < j => q[i].seq < q[j].seq

C14_HookByIndex ==
    \A i \in 0..(Len(hooks) - 1) :
       (request.callback_id = CallbackId(i) /\ response # NoResponse)
          => hook_calls = <<i>>

\* The request hook_1 has been handled with two hooks registered, and the
\* second one was invoked.
C14_SecondHookInvoked ==
    /\ Len(hooks) = 2 /\ request.callback_id = CallbackId(1)
    /\ response # NoResponse /\ hook_calls = <<1>>

\* C15: once close() has cancelled the session, the stdout, stdin, stderr
\* and router tasks all eventually return, whatever each of them was doing
\* at that moment.
C15_LoopsTerminateAfterClose ==
    cancel ~> (/\ ~Running(stdout_pc) /\ ~Running(stdin_pc)
               /\ ~Running(stderr_pc) /\ ~Running(router_pc))

\* C17: close() on the engine and on the process pump is idempotent: in any
\* state, connected, closed or never connected, it returns Ok and leaves the
\* engine cancelled, without writer, not ready and without child handle, and
\* a second call returns Ok and changes nothing.
C17_CloseIdempotent ==
    LET first == QueryClose(EngineState)
        second == QueryClose(first.state)
        pump == CloseImpl(CloseImpl(EngineState).state)
    IN  /\ first.res = "Ok" /\ second.res = "Ok" /\ pump.res = "Ok"
        /\ second.state = first.state
        /\ pump.state = CloseImpl(EngineState).state
        /\ first.state.cancel /\ first.state.transport_cancel
        /\ ~first.state.writer /\ ~first.state.ready
        /\ first.state.child = "None"

\* A session that was connected, with a live child, has been closed by
\* disconnect(), and closing it again would change nothing.
C17_ClosedSession ==
    /\ conn = "disconnected" /\ server_info # NoFrame
    /\ cancel /\ ~writer /\ child = "None" /\ ~child_alive
    /\ QueryClose(EngineState).state = EngineState

\* C18: the step in which a control command returns ControlTimeout touches
\* nothing but that round trip: neither token is cancelled, no task changes
\* position, the client, the writer and the child are as before, the other
\* calls and their pending entries are untouched, nothing is written (no
\* retry), and prompts and commands are accepted afterwards as before.
C18_TimeoutIsLocal ==
    [][\A c \in Cmds :
          (call[c].res # "ControlTimeout" /\ call'[c].res = "ControlTimeout")
             => /\ UNCHANGED <<cancel, transport_cancel, writer, ready, child,
                               child_alive, clientVars, taskVars>>
                /\ UNCHANGED <<read_q, write_q, consumer_q>>
                /\ \A d \in Calls \ {c} : call'[d] = call[d]
                /\ pending_responses' \ {call[c].id}
                      = pending_responses \ {call[c].id}
                /\ QueryRef' /\ writer'
                /\ SendMessageResult' = SendMessageResult]_vars

\* One command has timed out and the next one, sent on the same session,
\* has got its response.
C18_CommandAfterTimeout ==
    /\ conn = "Ok" /\ ~cancel
    /\ call[1].res = "ControlTimeout"
    /\ call[2].res = "Ok" /\ call[2].got.rid = call[2].id
    /\ Running(router_pc) /\ Running(stdin_pc) /\ Running(stdout_pc)

\* C19: when the router returns while the consumer is still listening, so
\* that the content stream ends, in a turn that has begun (a prompt has been
\* accepted) and has produced nothing yet (the child has written no line),
\* the last item the consumer is given is a result frame or an error item.
C19_StreamEndsWithResultOrError ==
    [][(/\ conn = "Ok" /\ message_rx
        /\ nlines = 0 /\ \E i \in 1..Len(write_q) : write_q[i].type = "user"
        /\ Running(router_pc) /\ Exited(router_pc'))
          => /\ consumer_q' # <<>>
             /\ consumer_q'[Len(consumer_q')].type \in {"result", "Err(Io)"}]_vars

\* The init handshake as connect() leaves it: no server info before the
\* handshake has succeeded, and after a successful connect() the server info
\* is the control_response that was matched to the initialize request.
ServerInfoIsInitResponse ==
    /\ conn \in {"idle", "initialize"} => server_info = NoFrame
    /\ call[0].res # "Ok" => server_info = NoFrame
    /\ conn = "Ok" =>
          /\ call[0].pc = "done" /\ call[0].res = "Ok"
          /\ server_info = call[0].got
          /\ server_info.type = "control_response"
          /\ server_info.rid = call[0].id

\* C20: connect() returns success only once the control_response to its
\* initialize request has been received; the server info is absent before,
\* is that response afterwards, and no later step, the routing of a later
\* control response included, changes it.
C20_ServerInfoFromHandshake ==
    [][/\ ServerInfoIsInitResponse /\ ServerInfoIsInitResponse'
       /\ server_info # NoFrame => server_info' = server_info]_vars

\* connect() has succeeded and a later command has received its own
\* control_response, which is not the stored server info.
C20_LaterResponseRouted ==
    /\ conn = "Ok" /\ server_info = call[0].got /\ server_info # NoFrame
    /\ call[1].res = "Ok" /\ call[1].got.type = "control_response"
    /\ call[1].got # server_info

\* C21: the answer to a can_use_tool request is allow when no permission
\* callback was supplied; when one was supplied it is invoked exactly once,
\* the answer is allow if and only if its result is allowed, and otherwise
\* deny with the callback's message.
C21_PermissionAnswer ==
    (request.subtype = "can_use_tool" /\ response # NoResponse) =>
       IF can_use_tool.some
       THEN /\ permission_calls = 1
            /\ response.behavior = "allow" <=> can_use_tool.allowed
            /\ ~can_use_tool.allowed =>
                  response = [behavior |-> "deny",
                              message |-> UnwrapOrDefault(can_use_tool.reason)]
       ELSE /\ permission_calls = 0
            /\ response = [behavior |-> "allow"]

\* A request has been denied by the callback, with the callback's message.
C21_DeniedWithMessage ==
    /\ request.subtype = "can_use_tool" /\ permission_calls = 1
    /\ can_use_tool = Capability(FALSE, "not allowed")
    /\ response = [behavior |-> "deny", message |-> "not allowed"]

\* C22: the answer to a hook_callback request that invoked a hook has
\* continue = false if and only if that hook's decision is block; approve,
\* ignore and no decision give continue = true.
C22_BlockStopsTurn ==
    (request.subtype = "hook_callback" /\ response # NoResponse
     /\ hook_calls # <<>>)
       => /\ Len(hook_calls) = 1
          /\ ~response.continue <=> hooks[hook_calls[1] + 1] = "block"

\* The first hook approves and the second blocks; the request named the
\* second and the answer stops the turn.
C22_BlockedBySecondHook ==
    /\ hooks = <<"approve", "block">> /\ hook_calls = <<1>>
    /\ response = [continue |-> FALSE, permissionDecision |-> "deny"]

\* The callback ids hook_<i> for the indices i of the registered hook list.
RegisteredIds == {CallbackId(i) : i \in 0..(Len(hooks) - 1)}

\* C23: a hook_callback request whose callback_id is missing, is not of the
\* form hook_<index>, or names an index outside the registered list, invokes
\* no hook and is answered with {continue: true}.
C23_UnknownIdIsPermissive ==
    (request.subtype = "hook_callback" /\ response # NoResponse
     /\ request.callback_id \notin RegisteredIds)
       => /\ hook_calls = <<>>
          /\ response = [continue |-> TRUE, permissionDecision |-> "absent"]

\* C24: an mcp_message request is forwarded, once, to the in-process server
\* named by server_name and that server's reply is the response body as it
\* is; when no handler is registered or no server has that name the request
\* is answered with an error body and no server is invoked.
C24_McpForwarded ==
    (request.subtype = "mcp_message" /\ response # NoResponse) =>
       IF request.server_name \in mcp_servers
       THEN /\ mcp_calls = <<<<request.server_name, request.message>>>>
            /\ response = ServerReply(request.server_name, request.message)
       ELSE /\ mcp_calls = <<>>
            /\ DOMAIN response = {"error"}

\* With servers a and b registered, a request for b has been answered with
\* b's reply, and a has not been invoked.
C24_SecondServerReplied ==
    /\ mcp_servers = {"a", "b"} /\ request.server_name = "b"
    /\ request.message = "tools/list"
    /\ mcp_calls = <<<<"b", "tools/list">>>>
    /\ response = ServerReply("b", "tools/list")

\* What the application has been handed followed by what the consumer channel
\* still holds: the messages the router has delivered, in delivery order.
Delivered(ys, q) == [i \in 1..Len(ys) |-> ys[i].item] \o q

\* C25: dropping a MessageStream puts the receiver back in the client with
\* the channel as it was, so the messages handed out by successive streams
\* followed by the messages still queued are always the router's deliveries
\* in their order: a step only appends a new delivery at the end, and a
\* message is handed out only by the stream that is alive, from the head of
\* the queue.
C25_DropRestoresReceiver ==
    [][/\ \/ Delivered(yielded', consumer_q') = Delivered(yielded, consumer_q)
          \/ /\ Len(consumer_q') = Len(consumer_q) + 1
             /\ yielded' = yielded
             /\ SubSeq(consumer_q', 1, Len(consumer_q)) = consumer_q
       /\ (stream = "messages" /\ stream' = "none")
             => message_rx' /\ consumer_q' = consumer_q /\ yielded' = yielded
       /\ yielded' # yielded
             => /\ stream # "none" /\ consumer_q # <<>>
                /\ yielded' = Append(yielded, [item |-> Head(consumer_q),
                                               by |-> stream_no])]_vars

\* A first stream yielded the first message and was dropped; the second
\* stream has yielded the message that came after it.
C25_NextStreamYieldsRest ==
    /\ stream = "messages" /\ stream_no = 2
    /\ Len(yielded) = 2
    /\ yielded[1].by = 1 /\ yielded[2].by = 2
    /\ yielded[1].item.seq < yielded[2].item.seq
    /\ IsContent(yielded[1].item) /\ IsContent(yielded[2].item)

\* C27: receive_response returns the messages its stream yielded, in order,
\* ending with the first Result message (or with the end of the stream when
\* no Result came), and it has taken nothing else from the channel; when an
\* error item comes before a Result, the error is what it returns.
C27_ResponseUpToResult ==
    [][(stream = "response" /\ stream' = "none")
        => LET taken == YieldedBy(yielded', stream_no)
               n == Len(taken)
           IN  /\ recv_res'.res \in {"Ok", "Err"}
               /\ InArrivalOrder(taken)
               /\ \A i \in 1..(n - 1) :
                      taken[i].type # "result" /\ ~IsErr(taken[i])
               /\ recv_res'.res = "Ok"
                     => /\ recv_res'.msgs = taken
                        /\ \A i \in 1..n : ~IsErr(taken[i])
                        /\ \/ n > 0 /\ taken[n].type = "result"
                           \/ consumer_q' = <<>> /\ Exited(router_pc)
               /\ recv_res'.res = "Err"
                     => n > 0 /\ IsErr(taken[n]) /\ recv_res'.err = taken[n]
               /\ \/ consumer_q' = consumer_q /\ yielded' = yielded
                  \/ consumer_q # <<>> /\ consumer_q' = Tail(consumer_q)]_vars

\* receive_response has returned the Result message of the first turn while
\* a message that came after it is queued for the next call.
C27_NextTurnStaysQueued ==
    /\ stream = "none" /\ recv_res.res = "Ok"
    /\ Len(recv_res.msgs) = 1 /\ recv_res.msgs[1].type = "result"
    /\ consumer_q # <<>> /\ IsContent(consumer_q[1])
    /\ recv_res.msgs[1].seq < consumer_q[1].seq

\* C26: connect() on a connected client returns AlreadyConnected and changes
\* nothing of the session (client fields, query, pending table, transport,
\* child, channels, tasks), and no child is spawned for a client that has a
\* query or by a transport that is ready.
C26_SecondConnectRefused ==
    [][/\ (last_send' # last_send /\ last_send'.op = "connect")
             => /\ query = "Some"
                /\ last_send'.res = "AlreadyConnected"
                /\ UNCHANGED <<clientVars, queryVars, transportVars, childVars,
                               read_q, write_q, consumer_q, taskVars>>
       /\ (query = "Some" \/ ready)
             => /\ ~(child = "None" /\ child' = "Some")
                /\ ~(~child_alive /\ child_alive')
                /\ ~(~ready /\ ready')]_vars

\* A second connect() was refused while the child runs, a request is in the
\* pending table and a message waits in the receiver.
C26_RefusedOnLiveSession ==
    /\ last_send.op = "connect" /\ last_send.res = "AlreadyConnected"
    /\ query = "Some" /\ child_alive /\ message_rx
    /\ consumer_q # <<>> /\ pending_responses # {}

\* C28: a registered request is completed exactly once. A call's outcome,
\* once it has one, never changes; the timeout fires only for a call that
\* has received no response; and when the response of a request that has
\* returned ControlTimeout is routed (resolve lost the race), the pending
\* table holds no entry for that id.
C28_ExactlyOneCompletion ==
    [][/\ \A c \in Cmds :
             call[c].res # "none" => call'[c].res = call[c].res
       /\ \A c \in Cmds :
             (call[c].res = "none" /\ call'[c].res = "ControlTimeout")
                => call[c].got = NoFrame
       /\ \A c \in Cmds :
             (/\ RouterTakes("control_response")
              /\ Head(read_q).rid = call[c].id
              /\ call[c].res = "ControlTimeout")
                => call[c].id \notin pending_responses]_vars

\* C29: when the router routes a control_response whose request id is in no
\* pending entry (an unknown or missing id, or the duplicate of a response
\* that was resolved), the pending table and every call are unchanged,
\* nothing is put on the consumer queue or the outbound queue, and the
\* router goes on with the next frame.
C29_UnmatchedResponseDiscarded ==
    [][(/\ RouterTakes("control_response")
        /\ RouteId(Head(read_q)) \notin pending_responses)
          => /\ pending_responses' = pending_responses
             /\ call' = call
             /\ consumer_q' = consumer_q /\ write_q' = write_q
             /\ router_pc' = "run" /\ router_hold' = NoFrame]_vars

\* The duplicate of the response that resolved command 1 is the next frame
\* the router takes, while command 2 waits with its entry in the table.
C29_DuplicateResponseAtRouter ==
    /\ router_pc = "run" /\ read_q # <<>>
    /\ Head(read_q).type = "control_response"
    /\ call[1].res = "Ok" /\ Head(read_q).rid = call[1].id
    /\ Head(read_q).seq > call[1].got.seq
    /\ call[1].id \notin pending_responses
    /\ call[2].pc = "await" /\ call[2].got = NoFrame
    /\ call[2].id \in pending_responses

IsControl(f) == f.type \in {"control_response", "control_request"}

\* The router takes Head(read_q) into one of its three arms and does not
\* return.
RouterReads ==
    /\ router_pc = "run" /\ read_q # <<>>
    /\ read_q' = Tail(read_q)
    /\ Running(router_pc')

\* Where frames are found, by type: no control frame in the consumer queue
\* or held for it, only a control_request held by the dispatcher, only a
\* control_response received by a caller.
Classified(cq, pc, hold, calls) ==
    /\ \A i \in 1..Len(cq) : ~IsControl(cq[i])
    /\ pc \in {"blocked", "blocked_err"} => ~IsControl(hold)
    /\ pc \in {"handler", "blocked_resp"} => hold.type = "control_request"
    /\ \A c \in Calls :
          calls[c].got # NoFrame => calls[c].got.type = "control_response"

\* C30: the router takes every frame into exactly one path by its type. A
\* control_response touches only the pending table and its caller; a
\* control_request touches only the dispatcher and the outbound queue; any
\* other frame changes no call and no pending entry, writes nothing to the
\* child, and is appended (parsed) to the consumer queue or held for it. No
\* control frame is ever in the consumer queue and no caller ever receives
\* anything but a control_response.
C30_OnePathPerType ==
    [][/\ Classified(consumer_q', router_pc', router_hold', call')
       /\ RouterReads =>
             LET f == Head(read_q)
             IN  /\ f.type = "control_response"
                       => /\ consumer_q' = consumer_q /\ write_q' = write_q
                          /\ router_pc' = "run" /\ router_hold' = NoFrame
                 /\ f.type = "control_request"
                       => /\ consumer_q' = consumer_q
                          /\ call' = call
                          /\ pending_responses' = pending_responses
                          /\ router_pc' \in {"run", "handler", "blocked_resp"}
                 /\ ~IsControl(f)
                       => /\ call' = call
                          /\ pending_responses' = pending_responses
                          /\ write_q' = write_q
                          /\ \/ consumer_q' = Append(consumer_q, IF f.type = "Err(Io)" THEN f ELSE ParseMessage(f))
                             \/ /\ router_pc' \in {"blocked", "blocked_err"}
                                /\ router_hold' = f
                                /\ consumer_q' = consumer_q]_vars

\* The response of line 1 has gone to the caller of command 1 and the
\* content frame of line 2 is in the consumer queue.
C30_ResponseAndContentRouted ==
    /\ call[1].got # NoFrame /\ call[1].got.seq = 1
    /\ consumer_q # <<>> /\ consumer_q[1].seq = 2
    /\ consumer_q[1].type = "assistant"
    /\ router_pc = "run"

\* C31: the outbound queue is first in, first out. A step leaves it as it
\* is, or accepts one frame at its end, or the stdin loop writes its oldest
\* frame (the child has read a request only once it has been written), or
\* the loop has returned and what was queued is dropped; so frames reach
\* the child in the order they were accepted, each once.
C31_OutboundInOrder ==
    [][/\ \/ write_q' = write_q
          \/ /\ Len(write_q') = Len(write_q) + 1
             /\ SubSeq(write_q', 1, Len(write_q)) = write_q
             /\ child_seen' = child_seen
          \/ /\ write_q # <<>> /\ write_q' = Tail(write_q)
             /\ stdin_pc = "run" /\ stdin_pc' = "run"
             /\ child_seen' \subseteq child_seen \cup {Head(write_q).rid}
          \/ write_q' = <<>> /\ ~Running(stdin_pc')
       /\ child_seen' # child_seen
             => \/ /\ write_q # <<>> /\ write_q' = Tail(write_q)
                   /\ Head(write_q).type = "control_request"
                   /\ child_seen' = child_seen \cup {Head(write_q).rid}
                \/ ~child_alive /\ child_alive']_vars

\* Two requests are queued, the older at the head, while the first request
\* of the session has been written and the stdin loop runs.
C31_TwoFramesQueued ==
    /\ stdin_pc = "run" /\ child_alive
    /\ Len(write_q) = 2
    /\ write_q[1].type = "control_request" /\ write_q[2].type = "control_request"
    /\ write_q[1].rid < write_q[2].rid
    /\ \A i \in 1..2 : write_q[i].rid \notin child_seen

\* C32: a frame the stdin loop takes while the child can no longer read
\* (write_all or flush fails) ends the loop; from then on the engine's send
\* operations report TransportClosed: a command that starts or resumes its
\* write returns TransportClosed and enqueues nothing, and so does a prompt.
C32_WriteFailureSurfaces ==
    [][/\ (/\ stdin_pc = "run" /\ write_q # <<>> /\ ~child_alive
           /\ Len(write_q') < Len(write_q))
             => Exited(stdin_pc')
       /\ \A c \in Cmds :
             (/\ stdin_pc = "exit_err"
              /\ call[c].pc \in {"idle", "write"}
              /\ call'[c].pc \notin {"idle", "write"})
                => /\ call'[c].pc = "done"
                   /\ call'[c].res = "TransportClosed"
                   /\ write_q' = write_q
       /\ (stdin_pc' = "exit_err" /\ query' = "Some" /\ writer')
             => SendMessageResult' = "TransportClosed"
       /\ (stdin_pc = "exit_err" /\ last_send' # last_send
              /\ last_send'.op = "query" /\ query' = "Some" /\ writer')
             => last_send'.res = "TransportClosed" /\ write_q' = write_q]_vars

\* The stdin loop has returned on a failed write; since then a command and
\* a prompt of the still connected client have returned TransportClosed.
C32_SendsFailAfterWriteError ==
    /\ stdin_pc = "exit_err" /\ ~child_alive
    /\ query = "Some" /\ writer
    /\ call[1].pc = "done" /\ call[1].res = "TransportClosed"
    /\ last_send.op = "query" /\ last_send.res = "TransportClosed"

\* JSON-RPC 2.0 "method not found".
MethodNotFound == -32601

\* C33: a control_request with a subtype that has no handler is answered
\* with an error body that carries the method-not-found code, and no hook,
\* permission callback or MCP server is invoked for it.
C33_UnknownSubtypeCode ==
    (request.subtype \in UnknownSubtypes /\ response # NoResponse)
       => /\ "error" \in DOMAIN response
          /\ "code" \in DOMAIN response
          /\ response.code = MethodNotFound
          /\ hook_calls = <<>> /\ permission_calls = 0 /\ mcp_calls = <<>>

\* A call that is waiting for its response.
Waiting(calls, c) == calls[c].pc \in {"write", "await"} /\ calls[c].got = NoFrame

\* Every request frame in the outbound queue, and every call that waits for
\* its response, has its entry in the pending table.
Registered(wq, calls, pending) ==
    /\ \A i \in 1..Len(wq) :
          wq[i].type = "control_request" => wq[i].rid \in pending
    /\ \A c \in Calls : Waiting(calls, c) => calls[c].id \in pending

\* C34: the entry of a request is in the pending table from before its
\* frame is in the outbound queue until its response is routed, for commands
\* and for the init handshake; so a control_response for a call that waits
\* finds the entry and is handed to that call, however early it comes.
C34_EntryBeforeFrame ==
    [][/\ (query' = "Some" \/ conn' = "initialize")
             => Registered(write_q', call', pending_responses')
       /\ \A c \in Calls :
             (/\ RouterTakes("control_response")
              /\ Waiting(call, c) /\ RouteId(Head(read_q)) = call[c].id)
                => /\ call[c].id \in pending_responses
                   /\ call'[c].got = Head(read_q)]_vars

\* The response of command 1 has been routed to it before the command was
\* polled again: it is still in its await with the response in its oneshot.
C34_AnsweredBeforePolled ==
    /\ call[1].pc = "await" /\ call[1].got # NoFrame
    /\ call[1].got.rid = call[1].id
    /\ call[1].id \notin pending_responses
    /\ call[0].res = "Ok" /\ call[0].got.rid = call[0].id

\* C35: when a command returns TransportClosed because its request could
\* not be enqueued, the pending table is as it was before the call: it
\* holds no entry for the id of that request.
C35_FailedWriteLeavesNoEntry ==
    [][\A c \in Cmds :
          (call[c].res # "TransportClosed" /\ call'[c].res = "TransportClosed")
             => call'[c].id \notin pending_responses']_vars

\* The control requests of the child and the answers to them, the nearest
\* to the child's stdin first: the answers in the outbound queue, the
\* request the dispatcher is working on, the requests not yet taken.
AnswerPath(wq, pc, hold, rq, sh) ==
    SelectSeq(wq, LAMBDA f : f.type = "control_response")
    \o (IF pc \in {"handler", "blocked_resp"} THEN <<hold>> ELSE <<>>)
    \o SelectSeq(rq, LAMBDA f : f.type = "control_request")
    \o (IF sh.type = "control_request" THEN <<sh>> ELSE <<>>)

\* C36: the router works on one control request at a time and to its end.
\* While a handler runs or its response waits for room in the outbound
\* queue, the router takes no other frame; and the answers queued, the
\* request being handled and the requests not yet taken are in the order
\* of their stdout lines, so that responses are enqueued in the order in
\* which the requests arrived.
C36_OneRequestAtATime ==
    [][/\ (router_pc \in {"handler", "blocked_resp"} /\ Running(router_pc'))
             => /\ read_q' = read_q \/ Len(read_q') = Len(read_q) + 1
                /\ router_pc' \in {"handler", "blocked_resp"}
                      => router_hold' = router_hold
                /\ router_pc' \notin {"handler", "blocked_resp"}
                      => /\ router_pc' = "run"
                         /\ write_q' \in {write_q,
                                           Append(write_q, ControlResponse(router_hold))}
       /\ InArrivalOrder(AnswerPath(write_q', router_pc', router_hold',
                                    read_q', stdout_hold'))]_vars

\* The answers to the control requests of lines 1 and 2 are in the outbound
\* queue in that order.
C36_TwoAnswersInOrder ==
    /\ Len(write_q) = 2
    /\ write_q[1].type = "control_response" /\ write_q[1].seq = 1
    /\ write_q[2].type = "control_response" /\ write_q[2].seq = 2
    /\ write_q[1].rid = ChildRid(1) /\ write_q[2].rid = ChildRid(2)

\* The child has written the response to the request of call c: it is in
\* the inbound queue or with the stdout task.
ResponseOnStdout(c) ==
    \E f \in {read_q[i] : i \in 1..Len(read_q)} \cup {stdout_hold} :
        f.type = "control_response" /\ f.rid = call[c].id

\* C37: whatever the consumer does, a response the child has written for a
\* call that waits is eventually handed to that call, also when the
\* application takes nothing from a full consumer queue and content frames
\* are ahead of the response.
C37_ResponseReachesCaller ==
    \A c \in Cmds :
        (Waiting(call, c) /\ ResponseOnStdout(c)) ~> (call[c].got # NoFrame)

\* C38: a content frame that parse_message refuses (no string "type") is
\* put on the consumer queue as Err(MessageParse) in its place, or held for
\* the queue while it is full, and the router goes on: it stays in its loop
\* when it takes such a frame and when the held one is delivered, and the
\* consumer queue stays in stdout order.
C38_ParseErrorDelivered ==
    [][/\ (/\ router_pc = "run" /\ read_q # <<>> /\ Head(read_q).type = ""
           /\ read_q' = Tail(read_q) /\ ~ConsumerClosed)
             => \/ /\ router_pc' = "run"
                   /\ consumer_q' = Append(consumer_q,
                         Frame("Err(MessageParse)", 0, "", Head(read_q).seq))
                \/ /\ router_pc' = "blocked" /\ router_hold' = Head(read_q)
                   /\ consumer_q' = consumer_q
       /\ (/\ router_pc = "blocked" /\ router_hold.type = ""
           /\ router_pc' # "blocked" /\ ~ConsumerClosed)
             => /\ router_pc' = "run"
                /\ consumer_q' = Append(consumer_q,
                      Frame("Err(MessageParse)", 0, "", router_hold.seq))
       /\ InArrivalOrder(consumer_q')]_vars

\* The application was handed the parse error of line 1 and after it the
\* assistant message of line 2.
C38_MessageAfterParseError ==
    /\ Len(yielded) = 2
    /\ yielded[1].item = Frame("Err(MessageParse)", 0, "", 1)
    /\ yielded[2].item = Frame("assistant", 0, "", 2)
    /\ router_pc = "run"

\* C39: whenever connect() has returned an error, the client is
\* disconnected: it holds no engine (is_connected() is false, so a later
\* connect() is not refused as AlreadyConnected) and no receiver, and
\* prompts and control commands return NotConnected.
C39_FailedConnectStaysDisconnected ==
    conn = "Err"
       => /\ query = "None"
          /\ ~message_rx
          /\ SendMessageResult = "NotConnected"
          /\ ~(QueryRef /\ writer)

\* C40: a connect() after disconnect() starts a fresh session: its
\* cancellation signals are not cancelled and its four loops run, its pending
\* table holds the new init request only, no server info and no frame of the
\* session before is in any channel; and from then on no request id drawn
\* before that connect() is pending.
C40_ReconnectIsFresh ==
    /\ [][(conn = "disconnected" /\ conn' = "initialize")
             => /\ query = "None"
                /\ ~cancel' /\ ~transport_cancel'
                /\ stdout_pc' = "run" /\ stdin_pc' = "run"
                /\ stderr_pc' = "run" /\ router_pc' = "run"
                /\ child_alive' /\ writer' /\ message_rx'
                /\ pending_responses' = {call'[0].id}
                /\ call'[0].id \notin pending_responses
                /\ server_info' = NoFrame
                /\ read_q' = <<>> /\ consumer_q' = <<>>
                /\ stdout_hold' = NoFrame /\ router_hold' = NoFrame
                /\ write_q' = <<Frame("control_request", call'[0].id,
                                      "initialize", 0)>>]_vars
    /\ [](call[0].id > 1 => \A id \in pending_responses : id >= call[0].id)

\* C40 witness: a prompt was refused while the client was disconnected, and
\* the session connected after it has completed its handshake, with its
\* router running and neither cancellation signal set.
C40_SecondSessionConnected ==
    /\ last_send = [op |-> "query", at |-> "disconnected", res |-> "NotConnected"]
    /\ call[0].id > 1 /\ call[0].res = "Ok"
    /\ conn = "Ok" /\ query = "Some"
    /\ router_pc = "run" /\ ~cancel /\ ~transport_cancel
====
